---------------------------- MODULE Spec2Model ----------------------------
(***************************************************************************)
(* A model of the tool-call orchestration pipeline of clokai:              *)
(*   - core/tool_validator.py   ToolCallValidator (with the statistics of  *)
(*                              core/tool_monitor.py it updates)           *)
(*   - core/claude_tool_system.py  _analyze_dependencies and               *)
(*                              execute_tools_parallel                     *)
(*   - core/smart_tool_system.py   _execute_tools_with_progress, the       *)
(*                              result cache and _handle_tool_failures     *)
(* Strings the code inspects character by character (strip, concatenation) *)
(* are sequences of one-character strings; a dict is a function whose      *)
(* domain is the set of its keys.                                          *)
(***************************************************************************)
EXTENDS Integers, Sequences, FiniteSets, TLC

VARIABLES
    \* ---- ToolCallValidator (core/tool_validator.py:15-22)
    consecutive_tool_counts,  \* session_context['consecutive_tool_counts']
    recent_searches,          \* session_context['recent_searches']
    found_files_cache,        \* self.found_files_cache
    known_files,              \* session_context['known_files']
    validation_stats,         \* tool_monitor.validation_stats
    \* ---- observation of the validator's calls
    lastOp,                   \* the operation that ran last: [op, tool]
    ret,                      \* what the last validate_tool_call returned
    evicted,                  \* observation: the signature the window of recent
                              \*   searches dropped last, None before
    run,                      \* the unbroken run of record_tool_call: [tool, len]
    \* ---- ClaudeToolSystem.execute_tools_parallel (core/claude_tool_system.py)
    tool_calls,               \* the batch: a sequence of [name, args]
    independent_groups,       \* what _analyze_dependencies returned: sequences of
    dependent_chains,         \*   sequences of positions in the batch
    mainPc,                   \* where the calling thread is
    status,                   \* per request: "pending", "running" (the tool
                              \*   function is executing) or "done"
    workerResult,             \* per request: what _execute_single_tool returned
    workerError,              \* per request: the error of that result
    futureIdx,                \* the future the calling thread waits for
    all_results,              \* all_results
    timedOut,                 \* the requests whose future.result() timed out
    chainPos,                 \* the chain and the place in it being executed
    \* ---- SmartToolSystem (core/smart_tool_system.py)
    objs,                     \* the ToolResult objects created so far; a result
                              \*   list and the cache hold indices into it
    cache,                    \* self.cache: cache key -> ToolResult object
    sPc,                      \* where the thread calling process_user_request is
    sRound,                   \* which call of _execute_tools_with_progress runs
    sRequests,                \* its tool_requests
    sStatus,                  \* per request: "pending", "running" or "done"
    sWorker,                  \* per request: the object _execute_single_tool
                              \*   returned, 0 before it returns
    sYielded,                 \* the futures as_completed has yielded
    sResults,                 \* results of the running call
    sSerial,                  \* the place in serial_tools
    ctxResults,               \* context.results
    retry_count,              \* context.retry_count
    corrected_requests,       \* the corrected requests parsed from the model
    results,                  \* `results` of process_user_request
    user_input,               \* user_input: [text, kind]
    initial_response,         \* initial_response
    need_check,               \* what _needs_tools answered, "unasked" before
    outcome,                  \* what process_user_request returned:
                              \*   [response, results]
    \* ---- observation of the SmartToolSystem
    execLog,                  \* the calls of a tool function: [call, round, ok]
    trackerFailed,            \* whether a tracker call raised in the latest
                              \*   call of a tool function
    llmCalls,                 \* the call_type of every model call made
    timeouts,                 \* the rounds in which as_completed timed out
    origSnapshot,             \* the objects of context.results as they were
                              \*   when the first execution returned
    \* ---- ClaudeToolSystem.parse_tool_calls (core/claude_tool_system.py)
    response_text,            \* response: the encoded calls it holds, in the
                              \*   order of the text
    unique_calls,             \* what parse_tool_calls returned
    parsePc,                  \* "idle", "start", "done" or "raised"
    \* ---- execute_tool_calls (core/session.py)
    matches,                  \* the (tool_name, args_str) pairs found in the response
    matchIdx,                 \* the pair the loop is at
    session_results,          \* results
    toolLog,                  \* observation: the pairs a tool function was called for
    sessPc                    \* "idle", "validate", "call" or "returned"

valVars == <<consecutive_tool_counts, recent_searches, found_files_cache,
             known_files, validation_stats, lastOp, ret, evicted, run>>

anVars == <<tool_calls, independent_groups, dependent_chains, mainPc>>

exVars == <<status, workerResult, workerError, futureIdx, all_results, timedOut, chainPos>>

smVars == <<objs, cache, sPc, sRound, sRequests, sStatus, sWorker, sYielded,
            sResults, sSerial, ctxResults, retry_count, corrected_requests,
            results, user_input, initial_response, need_check, outcome, execLog, trackerFailed,
            llmCalls, timeouts, origSnapshot>>

parseVars == <<response_text, unique_calls, parsePc>>

sessVars == <<matches, matchIdx, session_results, toolLog, sessPc>>

vars == <<valVars, anVars, exVars, smVars, parseVars, sessVars>>

-----------------------------------------------------------------------------
(* Configuration: config.py *)

TOOL_CALL_VALIDATION == TRUE
MAX_CONSECUTIVE_SAME_TOOL == 2
BLOCK_EMPTY_ARGS == TRUE
PREVENT_REDUNDANT_FILE_SEARCHES == TRUE

(* Bounds of the model *)
MaxTotalCalls == 3      \* record_tool_call is taken at most this often
MaxBlockedCalls == 1    \* a blocking validate_tool_call at most this often
MaxBatch == 4           \* the longest batch given to _analyze_dependencies
MaxExecBatch == 3       \* the longest batch given to execute_tools_parallel
MaxSmartBatch == 2      \* the longest batch given to process_user_request
MaxCorrected == 1       \* the longest array of corrected requests
MaxSegments == 2        \* the most encoded calls in a text given to the parser
MaxMatches == 3         \* the most tool calls in a response given to execute_tool_calls
MaxPatterns == 6        \* the different patterns searched for in one session
MaxToolResults == 3     \* process_user_request is called again while the
                        \*   process holds fewer ToolResult objects than this

-----------------------------------------------------------------------------
(* Strings and dicts *)

EmptyStr == <<>>
Str(c) == <<c>>
EmptyDict == <<>>
\* Python's None: no string (a string's elements are single characters)
NoneVal == <<"None">>

IsSpace(c) == c \in {" ", "\t", "\n", "\r"}

RECURSIVE LStrip(_)
LStrip(s) == IF s # <<>> /\ IsSpace(Head(s)) THEN LStrip(Tail(s)) ELSE s

RECURSIVE RStrip(_)
RStrip(s) ==
    IF s # <<>> /\ IsSpace(s[Len(s)]) THEN RStrip(SubSeq(s, 1, Len(s) - 1)) ELSE s

\* str.strip()
Strip(s) == RStrip(LStrip(s))

\* dict.get(key, default)
Get(args, key, default) == IF key \in DOMAIN args THEN args[key] ELSE default

\* Python truthiness: `not s` is true of the empty string and of None
Falsy(s) == s = EmptyStr \/ s = NoneVal

-----------------------------------------------------------------------------
(* Inputs of the validator *)

ToolNames == {"find_files", "read_file", "run_command", "write_file"}

ValArgs ==
    {EmptyDict}
    \cup {("pattern" :> p) : p \in {EmptyStr, Str("*"), Str("a"), Str("b")}}
    \cup {("arg1" :> Str("*"))}
    \cup {("pattern" :> EmptyStr) @@ ("arg1" :> Str("a")),
          ("pattern" :> Str("a")) @@ ("search_type" :> Str("c"))}
    \cup {("path" :> p) : p \in {EmptyStr, Str(" "), Str("a")}}
    \cup {("cmd" :> p) : p \in {EmptyStr, Str("a")}}

\* what record_tool_call is given: the arguments of calls that were executed
RecordArgs ==
    {("pattern" :> Str("a")), ("pattern" :> Str("b")), ("arg1" :> Str("a")),
     ("path" :> Str("a")), ("cmd" :> Str("a"))}

\* A tool's result text, line by line.  kind is what the validator looks at:
\* "found" a line holding the word Found, "nofiles" a line starting with
\* "No files", "numbered" a line "<n>. <name>", "plain" any other text.
FoundResult == <<[kind |-> "found", name |-> ""], [kind |-> "numbered", name |-> "a.py"]>>
NoFilesResult == <<[kind |-> "nofiles", name |-> ""]>>
Results == {FoundResult, NoFilesResult}
\* the result text of a tool that is not a search
OtherResult == <<[kind |-> "plain", name |-> ""]>>

\* "Found" in result
ContainsFound(result) == \E i \in 1..Len(result) : result[i].kind = "found"

\* _extract_found_files: the names of the lines that split at ". "
ExtractFoundFiles(result) ==
    {result[i].name : i \in {j \in 1..Len(result) : result[j].kind = "numbered"}}

-----------------------------------------------------------------------------
(* ToolCallValidator *)

\* a plausible slip: the bare wildcard and the empty dict are let through
has_empty_args_no_wildcard(tool_name, args) ==
    IF tool_name = "find_files" THEN
        Falsy(Get(args, "pattern", Get(args, "arg1", EmptyStr)))
    ELSE IF tool_name = "read_file" THEN
        Falsy(Get(args, "path", Get(args, "arg1", EmptyStr)))
    ELSE FALSE

\* _has_empty_args
has_empty_args(tool_name, args) ==
    IF args = EmptyDict THEN TRUE
    ELSE IF tool_name = "find_files" THEN
        LET pattern == Get(args, "pattern", Get(args, "arg1", EmptyStr))
        IN  Falsy(pattern) \/ pattern = Str("*")
    ELSE IF tool_name = "read_file" THEN
        LET path == Get(args, "path", Get(args, "arg1", EmptyStr))
        IN  Falsy(path) \/ Strip(path) = EmptyStr
    ELSE IF tool_name = "run_command" THEN
        LET cmd == Get(args, "cmd", Get(args, "arg1", EmptyStr))
        IN  Falsy(cmd) \/ Strip(cmd) = EmptyStr
    ELSE FALSE

\* consecutive_tool_counts.get(tool_name, 0)
CountOf(tool_name) ==
    IF tool_name \in DOMAIN consecutive_tool_counts
    THEN consecutive_tool_counts[tool_name] ELSE 0

\* a plausible slip: the limit compared with > instead of >=
exceeds_consecutive_limit_off_by_one(tool_name) ==
    CountOf(tool_name) > MAX_CONSECUTIVE_SAME_TOOL

\* _exceeds_consecutive_limit
exceeds_consecutive_limit(tool_name) ==
    CountOf(tool_name) >= MAX_CONSECUTIVE_SAME_TOOL

\* f"{pattern}:{search_type}"
SearchSignature(args) ==
    Get(args, "pattern", Get(args, "arg1", EmptyStr)) \o Str(":")
        \o Get(args, "search_type", Get(args, "arg2", Str("n")))

InSeq(x, s) == \E i \in 1..Len(s) : s[i] = x

\* a plausible slip: only the searches of the turn are looked at
is_redundant_file_search_turn_only(tool_name, args) ==
    /\ tool_name = "find_files"
    /\ InSeq(SearchSignature(args), recent_searches)

\* _is_redundant_file_search: its return value ...
is_redundant_file_search(tool_name, args) ==
    /\ tool_name = "find_files"
    /\ \/ Get(args, "pattern", Get(args, "arg1", EmptyStr)) \in DOMAIN found_files_cache
       \/ InSeq(SearchSignature(args), recent_searches)

\* a plausible slip: the window is never trimmed
RecentAfterSearch_no_eviction(tool_name, args) ==
    IF tool_name = "find_files" /\ ~is_redundant_file_search(tool_name, args)
    THEN Append(recent_searches, SearchSignature(args))
    ELSE recent_searches

\* ... and the window of recent searches it leaves behind
RecentAfterSearch(tool_name, args) ==
    IF tool_name = "find_files" /\ ~is_redundant_file_search(tool_name, args)
    THEN LET appended == Append(recent_searches, SearchSignature(args))
         IN  IF Len(appended) > 5 THEN Tail(appended) ELSE appended
    ELSE recent_searches

\* validate_tool_call's return value (should_execute, reason); the reason is
\* the class _classify_block_reason gives the reason text
ValidateResult(tool_name, args) ==
    IF ~TOOL_CALL_VALIDATION THEN [allowed |-> TRUE, reason |-> "none"]
    ELSE IF BLOCK_EMPTY_ARGS /\ has_empty_args(tool_name, args)
        THEN [allowed |-> FALSE, reason |-> "empty_args"]
    ELSE IF exceeds_consecutive_limit(tool_name)
        THEN [allowed |-> FALSE, reason |-> "consecutive"]
    ELSE IF PREVENT_REDUNDANT_FILE_SEARCHES /\ is_redundant_file_search(tool_name, args)
        THEN [allowed |-> FALSE, reason |-> "redundant_search"]
    ELSE [allowed |-> TRUE, reason |-> "none"]

\* whether validate_tool_call gets as far as _is_redundant_file_search
ReachesSearchCheck(tool_name, args) ==
    /\ TOOL_CALL_VALIDATION
    /\ ~(BLOCK_EMPTY_ARGS /\ has_empty_args(tool_name, args))
    /\ ~exceeds_consecutive_limit(tool_name)
    /\ PREVENT_REDUNDANT_FILE_SEARCHES

\* tool_monitor.log_blocked_call
StatsAfterBlock(reason) ==
    [validation_stats EXCEPT
        !.blocked_calls = @ + 1,
        !.empty_args_blocks = IF reason = "empty_args" THEN @ + 1 ELSE @,
        !.consecutive_blocks = IF reason = "consecutive" THEN @ + 1 ELSE @,
        !.redundant_search_blocks = IF reason = "redundant_search" THEN @ + 1 ELSE @]

\* validate_tool_call
validate_tool_call(tool_name, args) ==
    LET r == ValidateResult(tool_name, args) IN
    /\ ret' = r
    /\ recent_searches' =
          IF ReachesSearchCheck(tool_name, args)
          THEN RecentAfterSearch(tool_name, args) ELSE recent_searches
    /\ evicted' =
          IF /\ ReachesSearchCheck(tool_name, args)
             /\ Len(RecentAfterSearch(tool_name, args)) <= Len(recent_searches)
             /\ RecentAfterSearch(tool_name, args) # recent_searches
          THEN Head(recent_searches) ELSE evicted
    /\ validation_stats' = IF r.allowed THEN validation_stats ELSE StatsAfterBlock(r.reason)
    /\ lastOp' = [op |-> "validate", tool |-> tool_name]
    /\ UNCHANGED <<consecutive_tool_counts, found_files_cache, known_files, run>>

\* a plausible slip: a new tool gets its entry and the others keep theirs
CountsAfterRecord_keep_others(tool_name) ==
    IF tool_name \in DOMAIN consecutive_tool_counts
    THEN [consecutive_tool_counts EXCEPT ![tool_name] = @ + 1]
    ELSE consecutive_tool_counts @@ (tool_name :> 1)

\* the consecutive counts record_tool_call leaves
CountsAfterRecord(tool_name) ==
    IF tool_name \in DOMAIN consecutive_tool_counts
    THEN [consecutive_tool_counts EXCEPT ![tool_name] = @ + 1]
    ELSE (tool_name :> 1)

\* record_tool_call
record_tool_call(tool_name, args, result) ==
    LET pattern == Get(args, "pattern", Get(args, "arg1", EmptyStr))
        caches == tool_name = "find_files" /\ ContainsFound(result) /\ ~Falsy(pattern)
    IN
    /\ validation_stats' = [validation_stats EXCEPT !.total_calls = @ + 1]
    /\ consecutive_tool_counts' = CountsAfterRecord(tool_name)
    /\ found_files_cache' =
          IF caches
          THEN [p \in DOMAIN found_files_cache \cup {pattern} |->
                    IF p = pattern THEN result ELSE found_files_cache[p]]
          ELSE found_files_cache
    /\ known_files' =
          IF caches THEN known_files \cup ExtractFoundFiles(result) ELSE known_files
    /\ lastOp' = [op |-> "record", tool |-> tool_name]
    /\ run' = IF run.len > 0 /\ run.tool = tool_name
              THEN [run EXCEPT !.len = @ + 1]
              ELSE [tool |-> tool_name, len |-> 1]
    /\ UNCHANGED <<recent_searches, ret, evicted>>

\* a plausible slip: the reset also forgets the search results
reset_context_clears_cache ==
    /\ lastOp.op # "reset"
    /\ consecutive_tool_counts' = <<>>
    /\ recent_searches' = <<>>
    /\ found_files_cache' = <<>>
    /\ lastOp' = [op |-> "reset", tool |-> ""]
    /\ run' = [tool |-> "", len |-> 0]
    /\ UNCHANGED <<known_files, validation_stats, ret, evicted>>

\* reset_context
reset_context ==
    /\ lastOp.op # "reset"
    /\ consecutive_tool_counts' = <<>>
    /\ recent_searches' = <<>>
    /\ lastOp' = [op |-> "reset", tool |-> ""]
    /\ run' = [tool |-> "", len |-> 0]
    /\ UNCHANGED <<found_files_cache, known_files, validation_stats, ret, evicted>>

ValidatorInit ==
    /\ consecutive_tool_counts = <<>>
    /\ recent_searches = <<>>
    /\ found_files_cache = <<>>
    /\ known_files = {}
    /\ validation_stats = [total_calls |-> 0, blocked_calls |-> 0,
                           empty_args_blocks |-> 0, consecutive_blocks |-> 0,
                           redundant_search_blocks |-> 0]
    /\ lastOp = [op |-> "init", tool |-> ""]
    /\ ret = [allowed |-> TRUE, reason |-> "none"]
    /\ evicted = NoneVal
    /\ run = [tool |-> "", len |-> 0]

-----------------------------------------------------------------------------
(* ClaudeToolSystem._analyze_dependencies *)

FileTools == {"read_file", "write_file", "edit_file"}

\* tool_call.args.get('path') or tool_call.args.get('arg1') or tool_call.args.get('arg')
ResolvedPath(args) ==
    LET p == Get(args, "path", NoneVal)
        q == Get(args, "arg1", NoneVal)
    IN  IF ~Falsy(p) THEN p ELSE IF ~Falsy(q) THEN q ELSE Get(args, "arg", NoneVal)

\* a set of positions as the list of them in batch order
RECURSIVE SortedSeq(_)
SortedSeq(S) ==
    IF S = {} THEN <<>>
    ELSE LET m == CHOOSE x \in S : \A y \in S : x <= y
         IN  <<m>> \o SortedSeq(S \ {m})

\* the requests that enter file_operations: a file tool with a truthy path
FileOps(calls) ==
    {i \in 1..Len(calls) :
        calls[i].name \in FileTools /\ ~Falsy(ResolvedPath(calls[i].args))}

\* a plausible slip: the else branch of `if file_path` is missing
other_tools_without_pathless(calls) ==
    SortedSeq({i \in 1..Len(calls) : calls[i].name \notin FileTools})

\* other_tools: every other request, in batch order
other_tools(calls) == SortedSeq((1..Len(calls)) \ FileOps(calls))

\* file_operations[path], in batch order
OperationsOn(calls, path) ==
    SortedSeq({i \in FileOps(calls) : ResolvedPath(calls[i].args) = path})

\* file_operations.items(): a dict keeps its keys in the order of insertion,
\* which is the order of each path's first request
file_operations(calls) ==
    LET first == SortedSeq({i \in FileOps(calls) :
                     \A j \in FileOps(calls) :
                        ResolvedPath(calls[j].args) = ResolvedPath(calls[i].args) => i <= j})
    IN  [k \in 1..Len(first) |-> OperationsOn(calls, ResolvedPath(calls[first[k]].args))]

\* a plausible slip: a chain only from the third request of a path on
FormsChain_threshold(operations) == Len(operations) > 2

\* len(operations) > 1
FormsChain(operations) == Len(operations) > 1

\* a plausible slip: no chains, every request is handed to the pool
analyze_dependencies_no_chains(calls) ==
    [independent_groups |->
        file_operations(calls)
            \o (IF other_tools(calls) # <<>> THEN <<other_tools(calls)>> ELSE <<>>),
     dependent_chains |-> <<>>]

\* _analyze_dependencies
analyze_dependencies(calls) ==
    [independent_groups |->
        SelectSeq(file_operations(calls), LAMBDA ops : ~FormsChain(ops))
            \o (IF other_tools(calls) # <<>> THEN <<other_tools(calls)>> ELSE <<>>),
     dependent_chains |->
        SelectSeq(file_operations(calls), FormsChain)]

AnalyzerIdle ==
    /\ tool_calls = <<>>
    /\ independent_groups = <<>>
    /\ dependent_chains = <<>>
    /\ mainPc = "idle"

ExecutorIdle ==
    /\ status = <<>>
    /\ workerResult = <<>>
    /\ workerError = <<>>
    /\ futureIdx = 0
    /\ all_results = <<>>
    /\ timedOut = {}
    /\ chainPos = <<0, 0>>

\* no text has been given to parse_tool_calls
ParserIdle ==
    /\ response_text = <<>>
    /\ unique_calls = <<>>
    /\ parsePc = "idle"

\* execute_tool_calls has not been called
SessionIdle ==
    /\ matches = <<>>
    /\ matchIdx = 0
    /\ session_results = <<>>
    /\ toolLog = <<>>
    /\ sessPc = "idle"

\* the state of a SmartToolSystem nothing has been asked of
NoOutcome == [response |-> "none", results |-> <<>>]
NoInput == [text |-> <<>>, kind |-> "none"]
NoResponse == [has_array |-> FALSE, array |-> <<>>, indicated |-> FALSE, suggests |-> FALSE]

SmartIdle ==
    /\ objs = <<>>
    /\ cache = <<>>
    /\ sPc = "idle"
    /\ sRound = "none"
    /\ sRequests = <<>>
    /\ sStatus = <<>>
    /\ sWorker = <<>>
    /\ sYielded = {}
    /\ sResults = <<>>
    /\ sSerial = 0
    /\ ctxResults = <<>>
    /\ retry_count = 0
    /\ corrected_requests = <<>>
    /\ results = <<>>
    /\ user_input = NoInput
    /\ initial_response = NoResponse
    /\ need_check = "unasked"
    /\ outcome = NoOutcome
    /\ execLog = <<>>
    /\ trackerFailed = FALSE
    /\ llmCalls = <<>>
    /\ timeouts = {}
    /\ origSnapshot = <<>>

\* the batches _analyze_dependencies is tried on
AnalyzeNames == {"read_file", "edit_file", "run_command"}
AnalyzeArgs ==
    {("path" :> Str("a")), ("path" :> Str("b")),
     ("path" :> EmptyStr) @@ ("arg" :> Str("a")), EmptyDict}
AnalyzeCalls == [name : AnalyzeNames, args : AnalyzeArgs]
AnalyzeBatches == UNION {[1..n -> AnalyzeCalls] : n \in 0..MaxBatch}

AnalyzeInit ==
    /\ tool_calls \in AnalyzeBatches
    /\ independent_groups = <<>>
    /\ dependent_chains = <<>>
    /\ mainPc = "start"

\* independent_groups, dependent_chains = self._analyze_dependencies(tool_calls)
Analyze ==
    /\ mainPc = "start"
    /\ independent_groups' = analyze_dependencies(tool_calls).independent_groups
    /\ dependent_chains' = analyze_dependencies(tool_calls).dependent_chains
    /\ mainPc' = "analyzed"
    /\ UNCHANGED tool_calls

AnalyzeNext == Analyze /\ UNCHANGED <<valVars, exVars, smVars, parseVars, sessVars>>

InitAnalyze == AnalyzeInit /\ ValidatorInit /\ ExecutorIdle /\ SmartIdle /\ ParserIdle /\ SessionIdle

SpecAnalyze == InitAnalyze /\ [][AnalyzeNext]_vars

-----------------------------------------------------------------------------
(* ClaudeToolSystem.execute_tools_parallel and _execute_single_tool *)

\* self.max_workers
max_workers == 3

TOOL_REGISTRY ==
    {"read_file", "write_file", "edit_file", "run_command", "find_files", "list_directory"}

\* Python's `a or b`
PyOr(a, b) == IF ~Falsy(a) THEN a ELSE b

\* _call_tool_function raises ValueError before it calls the tool function
MissingParams(call) ==
    LET arg(k) == Get(call.args, k, NoneVal) IN
    CASE call.name = "read_file" -> Falsy(PyOr(arg("path"), PyOr(arg("arg1"), arg("arg"))))
      [] call.name = "write_file" -> Falsy(PyOr(arg("path"), arg("arg1")))
      [] call.name = "edit_file" ->
            \/ Falsy(PyOr(arg("path"), arg("arg1")))
            \/ Falsy(PyOr(arg("action"), arg("arg2")))
      [] call.name = "run_command" -> Falsy(PyOr(arg("cmd"), PyOr(arg("arg1"), arg("arg"))))
      [] call.name \in {"find_files", "list_directory"} -> FALSE
      [] OTHER -> TRUE

RECURSIVE Flatten(_)
Flatten(groups) == IF groups = <<>> THEN <<>> ELSE Head(groups) \o Flatten(Tail(groups))

\* futures: the requests of the independent groups in the order of submission
Futures == Flatten(independent_groups)
PoolCalls == {Futures[k] : k \in 1..Len(Futures)}
ChainCalls == {Flatten(dependent_chains)[k] : k \in 1..Len(Flatten(dependent_chains))}

\* the queue of the pool is first in, first out, and each unfinished request
\* ahead holds one of the max_workers threads
WorkerFree(i) ==
    LET k == CHOOSE n \in 1..Len(Futures) : Futures[n] = i
    IN  Cardinality({n \in 1..(k - 1) : status[Futures[n]] # "done"}) < max_workers

\* an f-string: its literal parts and the values put between them
FString(parts) == parts

\* the reason validate_tool_call returns with a refusal
BlockReason(tool_name, reason) ==
    FString(<<"Blocked ", tool_name, ": ",
              CASE reason = "empty_args" -> "Empty or invalid arguments"
                [] reason = "consecutive" -> "Exceeded consecutive call limit"
                [] OTHER -> "Redundant file search">>)

\* a plausible slip: the message without the name
NotFoundError_anonymous(tool_name) == FString(<<"Tool not found">>)

\* error of the result for a name the registry does not hold
NotFoundError(tool_name) == FString(<<"Tool '", tool_name, "' not found">>)

\* str(e) of an exception of the tool function or of the parameter mapping
ExceptionText == FString(<<"str(e)">>)

\* ToolResult as seen by the caller
ToolResult(i, kind, error) ==
    [call |-> i, success |-> (kind = "ok"), kind |-> kind, error |-> error]

\* _execute_single_tool up to the call of the tool function: validation, the
\* registry lookup and the parameter mapping of _call_tool_function
BeginCall(i) ==
    LET call == tool_calls[i]
        v == ValidateResult(call.name, call.args)
        early == IF ~v.allowed THEN "blocked"
                 ELSE IF call.name \notin TOOL_REGISTRY THEN "not_found"
                 ELSE IF MissingParams(call) THEN "raised"
                 ELSE "none"
    IN
    /\ status[i] = "pending"
    /\ validate_tool_call(call.name, call.args)
    /\ status' = [status EXCEPT ![i] = IF early = "none" THEN "running" ELSE "done"]
    /\ workerResult' = [workerResult EXCEPT ![i] = early]
    /\ workerError' = [workerError EXCEPT ![i] =
          CASE early = "blocked" -> BlockReason(call.name, v.reason)
            [] early = "not_found" -> NotFoundError(call.name)
            [] early = "raised" -> ExceptionText
            [] OTHER -> NoneVal]

\* _execute_single_tool from the return of the tool function on: the tool
\* function returned (record_tool_call, a successful result) or raised (the
\* except branch, a failed result)
EndCall(i, raised, result) ==
    LET call == tool_calls[i] IN
    /\ status[i] = "running"
    /\ status' = [status EXCEPT ![i] = "done"]
    /\ IF raised
       THEN /\ workerResult' = [workerResult EXCEPT ![i] = "raised"]
            /\ workerError' = [workerError EXCEPT ![i] = ExceptionText]
            /\ UNCHANGED valVars
       ELSE /\ workerResult' = [workerResult EXCEPT ![i] = "ok"]
            /\ UNCHANGED workerError
            /\ record_tool_call(call.name, call.args, result)

\* what a tool function may return
ResultsOf(call) == IF call.name = "find_files" THEN Results ELSE {OtherResult}

\* if not tool_calls: return []; otherwise the analysis and the submission of
\* every request of the independent groups
ExecStart ==
    /\ mainPc = "start"
    /\ IF tool_calls = <<>>
       THEN /\ mainPc' = "returned"
            /\ UNCHANGED <<independent_groups, dependent_chains, status, workerResult, workerError,
                           futureIdx>>
       ELSE /\ independent_groups' = analyze_dependencies(tool_calls).independent_groups
            /\ dependent_chains' = analyze_dependencies(tool_calls).dependent_chains
            /\ status' = [i \in 1..Len(tool_calls) |-> "pending"]
            /\ workerResult' = [i \in 1..Len(tool_calls) |-> "none"]
            /\ workerError' = [i \in 1..Len(tool_calls) |-> NoneVal]
            /\ futureIdx' = 1
            /\ mainPc' = "collect"
    /\ UNCHANGED <<tool_calls, all_results, timedOut, chainPos, valVars>>

\* a worker thread takes a request from the queue and runs _execute_single_tool
PoolBegin(i) ==
    /\ mainPc \notin {"idle", "start"}
    /\ i \in PoolCalls
    /\ status[i] = "pending"
    /\ WorkerFree(i)
    /\ BeginCall(i)
    /\ UNCHANGED <<anVars, futureIdx, all_results, timedOut, chainPos>>

\* the tool function of a worker thread returns or raises
PoolEnd(i, raised, result) ==
    /\ mainPc \notin {"idle", "start"}
    /\ i \in PoolCalls
    /\ EndCall(i, raised, result)
    /\ UNCHANGED <<anVars, futureIdx, all_results, timedOut, chainPos>>

\* a plausible slip: an except clause too narrow for the timeout
FutureTimeoutCaught_narrow == FALSE

\* except Exception (line 182) catches concurrent.futures.TimeoutError
FutureTimeoutCaught == TRUE

\* future.result(timeout=30) returns: all_results.append(result)
CollectResult ==
    /\ mainPc = "collect"
    /\ futureIdx <= Len(Futures)
    /\ status[Futures[futureIdx]] = "done"
    /\ all_results' = Append(all_results,
                             ToolResult(Futures[futureIdx], workerResult[Futures[futureIdx]],
                                        workerError[Futures[futureIdx]]))
    /\ futureIdx' = futureIdx + 1
    /\ UNCHANGED <<anVars, status, workerResult, workerError, timedOut, chainPos, valVars>>

\* future.result(timeout=30) raises TimeoutError: the request has not finished
\* within the timeout; the except branch appends error_result
CollectTimeout ==
    /\ mainPc = "collect"
    /\ futureIdx <= Len(Futures)
    /\ status[Futures[futureIdx]] # "done"
    /\ timedOut' = timedOut \cup {Futures[futureIdx]}
    /\ IF FutureTimeoutCaught
       THEN /\ all_results' = Append(all_results, ToolResult(Futures[futureIdx], "timeout", ExceptionText))
            /\ futureIdx' = futureIdx + 1
            /\ UNCHANGED mainPc
       ELSE /\ mainPc' = "raised"
            /\ UNCHANGED <<all_results, futureIdx>>
    /\ UNCHANGED <<tool_calls, independent_groups, dependent_chains, status,
                   workerResult, workerError, chainPos, valVars>>

\* the last future is collected: the with block is left
CollectDone ==
    /\ mainPc = "collect"
    /\ futureIdx > Len(Futures)
    /\ mainPc' = "shutdown"
    /\ UNCHANGED <<tool_calls, independent_groups, dependent_chains, exVars, valVars>>

\* a plausible slip: shutdown(wait=False), the chains start at once
PoolJoined_no_wait == TRUE

\* ThreadPoolExecutor.__exit__ is shutdown(wait=True): it returns when every
\* submitted request has finished
PoolJoined == \A i \in PoolCalls : status[i] = "done"

\* the with block (line 168) is left; the chains come next
Shutdown ==
    /\ mainPc = "shutdown"
    /\ PoolJoined
    /\ IF dependent_chains = <<>>
       THEN mainPc' = "returned" /\ UNCHANGED chainPos
       ELSE mainPc' = "chains" /\ chainPos' = <<1, 1>>
    /\ UNCHANGED <<tool_calls, independent_groups, dependent_chains, status, workerResult, workerError,
                   futureIdx, all_results, timedOut, valVars>>

\* the request of the chains the calling thread is at
ChainCall == dependent_chains[chainPos[1]][chainPos[2]]

\* result = self._execute_single_tool(tool_call), in the calling thread
ChainBegin ==
    /\ mainPc = "chains"
    /\ BeginCall(ChainCall)
    /\ UNCHANGED <<anVars, futureIdx, all_results, timedOut, chainPos>>

ChainEnd(raised, result) ==
    /\ mainPc = "chains"
    /\ EndCall(ChainCall, raised, result)
    /\ UNCHANGED <<anVars, futureIdx, all_results, timedOut, chainPos>>

\* all_results.append(result) and the next request of the chains, or the return
ChainAppend ==
    /\ mainPc = "chains"
    /\ status[ChainCall] = "done"
    /\ all_results' = Append(all_results, ToolResult(ChainCall, workerResult[ChainCall],
                                                  workerError[ChainCall]))
    /\ IF chainPos[2] < Len(dependent_chains[chainPos[1]])
       THEN chainPos' = <<chainPos[1], chainPos[2] + 1>> /\ UNCHANGED mainPc
       ELSE IF chainPos[1] < Len(dependent_chains)
       THEN chainPos' = <<chainPos[1] + 1, 1>> /\ UNCHANGED mainPc
       ELSE mainPc' = "returned" /\ UNCHANGED chainPos
    /\ UNCHANGED <<tool_calls, independent_groups, dependent_chains, status, workerResult, workerError,
                   futureIdx, timedOut, valVars>>

\* the batches execute_tools_parallel is tried on
ExecCalls ==
    {[name |-> "read_file", args |-> ("path" :> Str("a"))],
     [name |-> "edit_file", args |-> ("path" :> Str("a")) @@ ("action" :> Str("r"))],
     [name |-> "run_command", args |-> ("cmd" :> Str("a"))],
     [name |-> "read_file", args |-> EmptyDict],
     [name |-> "bogus", args |-> ("path" :> Str("a"))]}
ExecBatches == UNION {[1..n -> ExecCalls] : n \in 0..MaxExecBatch}

ExecInit ==
    /\ tool_calls \in ExecBatches
    /\ independent_groups = <<>>
    /\ dependent_chains = <<>>
    /\ mainPc = "start"

InitClaude == ExecInit /\ ExecutorIdle /\ ValidatorInit /\ SmartIdle /\ ParserIdle /\ SessionIdle

ClaudeNext ==
    \/ ExecStart /\ UNCHANGED <<smVars, parseVars, sessVars>>
    \/ \E i \in 1..Len(tool_calls) : PoolBegin(i) /\ UNCHANGED <<smVars, parseVars, sessVars>>
    \/ \E i \in 1..Len(tool_calls), raised \in BOOLEAN :
          \E r \in ResultsOf(tool_calls[i]) : PoolEnd(i, raised, r) /\ UNCHANGED <<smVars, parseVars, sessVars>>
    \/ CollectResult /\ UNCHANGED <<smVars, parseVars, sessVars>>
    \/ CollectTimeout /\ UNCHANGED <<smVars, parseVars, sessVars>>
    \/ CollectDone /\ UNCHANGED <<smVars, parseVars, sessVars>>
    \/ Shutdown /\ UNCHANGED <<smVars, parseVars, sessVars>>
    \/ mainPc = "chains" /\ ChainBegin /\ UNCHANGED <<smVars, parseVars, sessVars>>
    \/ /\ mainPc = "chains"
       /\ \E raised \in BOOLEAN :
             \E r \in ResultsOf(tool_calls[ChainCall]) : ChainEnd(raised, r)
       /\ UNCHANGED <<smVars, parseVars, sessVars>>
    \/ mainPc = "chains" /\ ChainAppend /\ UNCHANGED <<smVars, parseVars, sessVars>>

SpecClaude == InitClaude /\ [][ClaudeNext]_vars

\* the steps of the thread that called execute_tools_parallel; the tool
\* functions of the chains, which it calls itself, are taken to return
CallerSteps ==
    \/ ExecStart /\ UNCHANGED <<smVars, parseVars, sessVars>>
    \/ CollectResult /\ UNCHANGED <<smVars, parseVars, sessVars>>
    \/ CollectTimeout /\ UNCHANGED <<smVars, parseVars, sessVars>>
    \/ CollectDone /\ UNCHANGED <<smVars, parseVars, sessVars>>
    \/ Shutdown /\ UNCHANGED <<smVars, parseVars, sessVars>>
    \/ mainPc = "chains" /\ ChainBegin /\ UNCHANGED <<smVars, parseVars, sessVars>>
    \/ /\ mainPc = "chains"
       /\ \E raised \in BOOLEAN :
             \E r \in ResultsOf(tool_calls[ChainCall]) : ChainEnd(raised, r)
       /\ UNCHANGED <<smVars, parseVars, sessVars>>
    \/ mainPc = "chains" /\ ChainAppend /\ UNCHANGED <<smVars, parseVars, sessVars>>

\* a free worker thread of the pool takes the next submitted request
PoolStarts ==
    \E i \in 1..Len(tool_calls) : PoolBegin(i) /\ UNCHANGED <<smVars, parseVars, sessVars>>

\* the threads are scheduled, the timeout of future.result passes, and the
\* tool function of a pool request may return, raise or never finish
SpecClaudeLive ==
    InitClaude /\ [][ClaudeNext]_vars /\ WF_vars(CallerSteps) /\ WF_vars(PoolStarts)

-----------------------------------------------------------------------------
\* the validator on its own: any sequence of its three operations
ValidatorNext ==
    \/ \E t \in ToolNames, a \in ValArgs :
          /\ ValidateResult(t, a).allowed \/ validation_stats.blocked_calls < MaxBlockedCalls
          /\ validate_tool_call(t, a)
          /\ UNCHANGED <<anVars, exVars, smVars, parseVars, sessVars>>
    \/ \E t \in ToolNames, a \in RecordArgs, r \in Results :
          /\ validation_stats.total_calls < MaxTotalCalls
          /\ record_tool_call(t, a, r)
          /\ UNCHANGED <<anVars, exVars, smVars, parseVars, sessVars>>
    \/ reset_context /\ UNCHANGED <<anVars, exVars, smVars, parseVars, sessVars>>

InitValidator == ValidatorInit /\ AnalyzerIdle /\ ExecutorIdle /\ SmartIdle /\ ParserIdle /\ SessionIdle

SpecValidator == InitValidator /\ [][ValidatorNext]_vars

-----------------------------------------------------------------------------
\* the validator asked about many different searches: validate_tool_call of
\* find_files with a pattern of its own letter, and reset_context
PatternLetters == <<"a", "b", "c", "d", "e", "f", "g", "h">>

WindowArgs == {("pattern" :> Str(PatternLetters[k])) : k \in 1..MaxPatterns}

SearchesNext ==
    \/ \E a \in WindowArgs :
          /\ ValidateResult("find_files", a).allowed
                \/ validation_stats.blocked_calls < MaxBlockedCalls
          /\ validate_tool_call("find_files", a)
          /\ UNCHANGED <<anVars, exVars, smVars, parseVars, sessVars>>
    \/ reset_context /\ UNCHANGED <<anVars, exVars, smVars, parseVars, sessVars>>

SpecSearches == InitValidator /\ [][SearchesNext]_vars

-----------------------------------------------------------------------------
(* SmartToolSystem: _execute_tools_with_progress, _execute_single_tool,     *)
(* _handle_tool_failures and steps 5 to 7 of process_user_request           *)

\* self.max_parallel
max_parallel == 3

\* ExecutionContext.max_retries
max_retries == 2

\* parallel_safe of _execute_tools_with_progress
parallel_safe == {"read_file", "find_files", "list_directory"}

\* the tools whose successful results _execute_single_tool stores
CachedTools == {"read_file", "list_directory", "find_files"}

\* cache_key: the action and the sorted items of params; a dict is already a
\* set of items, so sorting adds nothing
cache_key(request) == [action |-> request.action, items |-> request.params]

\* a ToolResult as the constructor leaves it
NewResult(request, success, error) ==
    [request |-> request, success |-> success, cached |-> FALSE, error |-> error]

\* error of the result for an action the registry does not hold
UnknownToolError(action) == FString(<<"Unknown tool: ", action>>)

\* parallel_tools and serial_tools, as positions in tool_requests
ParallelIdx == {i \in 1..Len(sRequests) : sRequests[i].action \in parallel_safe}
serial_tools == SortedSeq({i \in 1..Len(sRequests) : sRequests[i].action \notin parallel_safe})

\* the pool has min(len(parallel_tools), max_parallel) threads and starts the
\* submitted requests first in, first out
SmartWorkerFree(i) ==
    LET limit == IF Cardinality(ParallelIdx) < max_parallel
                 THEN Cardinality(ParallelIdx) ELSE max_parallel
    IN  Cardinality({j \in ParallelIdx : j < i /\ sStatus[j] # "done"}) < limit

\* _execute_single_tool up to the call of the tool function: a cache hit marks
\* the stored object and returns that very object
BeginSingle(i) ==
    LET request == sRequests[i]
        key == cache_key(request)
    IN
    /\ sStatus[i] = "pending"
    /\ IF key \in DOMAIN cache
       THEN /\ objs' = [objs EXCEPT ![cache[key]].cached = TRUE]
            /\ sWorker' = [sWorker EXCEPT ![i] = cache[key]]
            /\ sStatus' = [sStatus EXCEPT ![i] = "done"]
       ELSE IF request.action \notin TOOL_REGISTRY
       THEN /\ objs' = Append(objs, NewResult(request, FALSE, UnknownToolError(request.action)))
            /\ sWorker' = [sWorker EXCEPT ![i] = Len(objs) + 1]
            /\ sStatus' = [sStatus EXCEPT ![i] = "done"]
       ELSE /\ sStatus' = [sStatus EXCEPT ![i] = "running"]
            /\ UNCHANGED <<objs, sWorker>>
    /\ UNCHANGED <<cache, execLog, trackerFailed>>

\* a plausible slip: the tracker calls are made without their own handler, so
\* what they raise reaches the handler of the tool function
TrackerCaught_nothing == FALSE

\* the `except Exception` around tracker.track_tool_call and the two tracking
\* helpers, and the one around the tracker call of the failure path
TrackerCaught == TRUE

\* the tool function returns or raises, the tracker is told and may raise
\* itself; a successful result of a read-type tool is stored under its key
EndSingle(i, raised) ==
    LET request == sRequests[i]
        key == cache_key(request)
        id == Len(objs) + 1
    IN
    /\ sStatus[i] = "running"
    /\ \E tracker_raises \in BOOLEAN :
          LET success == ~raised /\ (tracker_raises => TrackerCaught)
          IN  /\ objs' = Append(objs, NewResult(request, success,
                                    IF success THEN NoneVal ELSE ExceptionText))
              /\ cache' = IF success /\ request.action \in CachedTools
                          THEN [k \in DOMAIN cache \cup {key} |->
                                    IF k = key THEN id ELSE cache[k]]
                          ELSE cache
              /\ trackerFailed' = tracker_raises
    /\ sWorker' = [sWorker EXCEPT ![i] = id]
    /\ sStatus' = [sStatus EXCEPT ![i] = "done"]
    /\ execLog' = Append(execLog, [call |-> request, round |-> sRound, ok |-> ~raised])

\* what _handle_tool_failures returns: None or final_results
NoneReturned == [none |-> TRUE, list |-> <<>>]
ListReturned(list) == [none |-> FALSE, list |-> list]

\* a plausible slip: the answer of the corrector is taken without the test
AfterCorrection_unconditional(corrected_results) == corrected_results.list

\* `if corrected_results: results = corrected_results` of process_user_request
AfterCorrection(corrected_results) ==
    IF corrected_results.none \/ corrected_results.list = <<>>
    THEN results
    ELSE corrected_results.list
Successes(ids) == SelectSeq(ids, LAMBDA id : objs[id].success)

frontVars == <<user_input, initial_response, need_check>>

procVars == <<sRound, sRequests, ctxResults, retry_count, corrected_requests,
              results, outcome, origSnapshot, frontVars, llmCalls>>

\* a plausible slip: the handler of process_user_request is missing
ProcessCatches_nothing == FALSE

\* `except Exception` of process_user_request catches what its body raises
ProcessCatches == TRUE

\* _execute_tools_with_progress is entered with a non-empty list: the split
\* into parallel and serial tools, and the submission of the parallel ones
EnterExecute ==
    /\ sPc = "x_enter"
    /\ sStatus' = [i \in 1..Len(sRequests) |-> "pending"]
    /\ sWorker' = [i \in 1..Len(sRequests) |-> 0]
    /\ sYielded' = {}
    /\ sResults' = <<>>
    /\ sSerial' = 1
    /\ sPc' = IF ParallelIdx # {} THEN "x_pool" ELSE "x_serial"
    /\ UNCHANGED <<objs, cache, execLog, trackerFailed, timeouts, procVars>>

\* a pool thread takes a submitted request
SmartPoolBegin(i) ==
    /\ sPc \in {"x_pool", "x_exit", "x_raise"}
    /\ i \in ParallelIdx
    /\ SmartWorkerFree(i)
    /\ BeginSingle(i)
    /\ UNCHANGED <<sPc, sYielded, sResults, sSerial, timeouts, procVars>>

SmartPoolEnd(i, raised) ==
    /\ sPc \in {"x_pool", "x_exit", "x_raise"}
    /\ i \in ParallelIdx
    /\ EndSingle(i, raised)
    /\ UNCHANGED <<sPc, sYielded, sResults, sSerial, timeouts, procVars>>

\* as_completed yields a finished future and the loop body appends its result
AsCompletedYield(i) ==
    /\ sPc = "x_pool"
    /\ i \in ParallelIdx \ sYielded
    /\ sStatus[i] = "done"
    /\ sResults' = Append(sResults, sWorker[i])
    /\ sYielded' = sYielded \cup {i}
    /\ UNCHANGED <<objs, cache, sPc, sStatus, sWorker, sSerial, execLog, trackerFailed, timeouts, procVars>>

\* as_completed is exhausted
AsCompletedDone ==
    /\ sPc = "x_pool"
    /\ sYielded = ParallelIdx
    /\ sPc' = "x_exit"
    /\ UNCHANGED <<objs, cache, sStatus, sWorker, sYielded, sResults, sSerial,
                   execLog, trackerFailed, timeouts, procVars>>

\* timeout_seconds pass with a future unfinished: as_completed raises
\* TimeoutError from the head of the for statement, outside its try
AsCompletedTimeout ==
    /\ sPc = "x_pool"
    /\ \E i \in ParallelIdx : sStatus[i] # "done"
    /\ timeouts' = timeouts \cup {sRound}
    /\ sPc' = "x_raise"
    /\ UNCHANGED <<objs, cache, sStatus, sWorker, sYielded, sResults, sSerial,
                   execLog, trackerFailed, procVars>>

\* leaving the with block waits for every submitted request
SmartPoolJoined == \A i \in ParallelIdx : sStatus[i] = "done"

PoolExit ==
    /\ sPc = "x_exit"
    /\ SmartPoolJoined
    /\ sPc' = "x_serial"
    /\ UNCHANGED <<objs, cache, sStatus, sWorker, sYielded, sResults, sSerial,
                   execLog, trackerFailed, timeouts, procVars>>

\* the TimeoutError leaves _execute_tools_with_progress: process_user_request
\* catches it and returns the error text with no results; _handle_tool_failures
\* catches it and returns None, which leaves `results` as it was
PoolExitRaising ==
    /\ sPc = "x_raise"
    /\ SmartPoolJoined
    /\ IF sRound = "original"
       THEN /\ IF ProcessCatches
               THEN /\ outcome' = [response |-> "error", results |-> <<>>]
                    /\ sPc' = "p_done"
               ELSE /\ sPc' = "escaped"
                    /\ UNCHANGED outcome
            /\ UNCHANGED results
       ELSE /\ sPc' = "p_summary"
            /\ results' = AfterCorrection(NoneReturned)
            /\ UNCHANGED outcome
    /\ UNCHANGED <<objs, cache, sStatus, sWorker, sYielded, sResults, sSerial, execLog, trackerFailed,
                   timeouts, sRound, sRequests, ctxResults, retry_count,
                   corrected_requests, origSnapshot, frontVars, llmCalls>>

\* the serial tools run one by one in the calling thread
SerialBegin ==
    /\ sPc = "x_serial"
    /\ sSerial <= Len(serial_tools)
    /\ BeginSingle(serial_tools[sSerial])
    /\ UNCHANGED <<sPc, sYielded, sResults, sSerial, timeouts, procVars>>

SerialEnd(raised) ==
    /\ sPc = "x_serial"
    /\ sSerial <= Len(serial_tools)
    /\ EndSingle(serial_tools[sSerial], raised)
    /\ UNCHANGED <<sPc, sYielded, sResults, sSerial, timeouts, procVars>>

SerialAppend ==
    /\ sPc = "x_serial"
    /\ sSerial <= Len(serial_tools)
    /\ sStatus[serial_tools[sSerial]] = "done"
    /\ sResults' = Append(sResults, sWorker[serial_tools[sSerial]])
    /\ sSerial' = sSerial + 1
    /\ UNCHANGED <<objs, cache, sPc, sStatus, sWorker, sYielded, execLog, trackerFailed, timeouts, procVars>>

Failed(ids) == {k \in 1..Len(ids) : ~objs[ids[k]].success}

\* _execute_tools_with_progress returns: to step 5 of process_user_request,
\* which stores the list in context.results, or to _handle_tool_failures
ReturnResults ==
    /\ sPc = "x_serial"
    /\ sSerial > Len(serial_tools)
    /\ IF sRound = "original"
       THEN /\ ctxResults' = sResults
            /\ results' = sResults
            /\ origSnapshot' = [k \in 1..Len(sResults) |-> objs[sResults[k]]]
            /\ sPc' = "p_failures"
       ELSE /\ sPc' = "h_merge"
            /\ UNCHANGED <<ctxResults, results, origSnapshot>>
    /\ UNCHANGED <<objs, cache, sStatus, sWorker, sYielded, sResults, sSerial, execLog, trackerFailed,
                   timeouts, sRound, sRequests, retry_count, corrected_requests, outcome,
                   frontVars, llmCalls>>

\* step 6 of process_user_request
CheckFailures ==
    /\ sPc = "p_failures"
    /\ sPc' = IF Failed(results) # {} THEN "h_entry" ELSE "p_summary"
    /\ UNCHANGED <<objs, cache, sStatus, sWorker, sYielded, sResults, sSerial, execLog, trackerFailed,
                   timeouts, procVars>>

\* _handle_tool_failures when call_llm raises, the answer holds no JSON array
\* or the array does not parse: None is returned
CorrectionUnparsed ==
    /\ sPc = "h_entry"
    /\ IF retry_count >= max_retries
       THEN UNCHANGED <<retry_count, llmCalls>>
       ELSE /\ retry_count' = retry_count + 1
            /\ llmCalls' = Append(llmCalls, "correction")
    /\ results' = AfterCorrection(NoneReturned)
    /\ sPc' = "p_summary"
    /\ UNCHANGED <<objs, cache, sStatus, sWorker, sYielded, sResults, sSerial, execLog, trackerFailed,
                   timeouts, sRound, sRequests, ctxResults, corrected_requests,
                   outcome, origSnapshot, frontVars>>

\* _handle_tool_failures when the model answers with an array: every entry
\* naming a tool becomes a request, and a non-empty list is executed
Correction(array) ==
    /\ sPc = "h_entry"
    /\ retry_count < max_retries
    /\ retry_count' = retry_count + 1
    /\ llmCalls' = Append(llmCalls, "correction")
    /\ corrected_requests' = array
    /\ IF array # <<>>
       THEN /\ sRound' = "correction"
            /\ sRequests' = array
            /\ sPc' = "x_enter"
            /\ UNCHANGED results
       ELSE /\ sPc' = "p_summary"
            /\ results' = AfterCorrection(NoneReturned)
            /\ UNCHANGED <<sRound, sRequests>>
    /\ UNCHANGED <<objs, cache, sStatus, sWorker, sYielded, sResults, sSerial, execLog, trackerFailed,
                   timeouts, ctxResults, outcome, origSnapshot, frontVars>>

\* final_results: the successful results of context.results, then every
\* corrected result; process_user_request takes the list as its results
MergeCorrected ==
    /\ sPc = "h_merge"
    /\ results' = AfterCorrection(ListReturned(Successes(ctxResults) \o sResults))
    /\ sPc' = "p_summary"
    /\ UNCHANGED <<objs, cache, sStatus, sWorker, sYielded, sResults, sSerial, execLog, trackerFailed,
                   timeouts, sRound, sRequests, ctxResults, retry_count,
                   corrected_requests, outcome, origSnapshot, frontVars, llmCalls>>

\* step 7 of process_user_request and its return: _generate_summary is called
\* when a result succeeded; it returns initial_response without a model call
\* when that text already presents results, and otherwise the model's summary
\* (or, when the call raises, initial_response with a count appended)
Summarize(presented) ==
    /\ sPc = "p_summary"
    /\ IF Successes(results) # <<>> /\ ~presented
       THEN /\ llmCalls' = Append(llmCalls, "summary")
            /\ outcome' = [response |-> "summary", results |-> results]
       ELSE /\ outcome' = [response |-> "initial", results |-> results]
            /\ UNCHANGED llmCalls
    /\ sPc' = "p_done"
    /\ UNCHANGED <<objs, cache, sStatus, sWorker, sYielded, sResults, sSerial, execLog, trackerFailed,
                   timeouts, sRound, sRequests, ctxResults, retry_count,
                   corrected_requests, results, origSnapshot, frontVars>>

\* the requests given to the SmartToolSystem: a read, a write and a tool that
\* does not exist
ReadA == [action |-> "read_file", params |-> ("path" :> Str("a"))]
WriteA == [action |-> "write_file",
           params |-> ("path" :> Str("a")) @@ ("content" :> Str("x"))]
Bogus == [action |-> "bogus", params |-> EmptyDict]
SmartCalls == {ReadA, WriteA, Bogus}
SmartBatches == UNION {[1..n -> SmartCalls] : n \in 1..MaxSmartBatch}
CorrectedArrays == UNION {[1..n -> SmartCalls] : n \in 0..MaxCorrected}

\* ---- steps 1 to 4 of process_user_request

\* str.lower(), for the letters the inputs hold
LowerChar(c) ==
    CASE c = "R" -> "r" [] c = "E" -> "e" [] c = "A" -> "a" [] c = "D" -> "d"
      [] OTHER -> c
Lower(s) == [i \in 1..Len(s) |-> LowerChar(s[i])]

\* `k in s` for strings
IsInfix(k, s) == \E i \in 0..(Len(s) - Len(k)) : SubSeq(s, i + 1, i + Len(k)) = k

\* str.split(None, 1): the first word and, if anything but whitespace follows
\* it, the rest of the text from its first non-blank character
Split1(s) ==
    LET t == LStrip(s)
        blanks == {i \in 1..Len(t) : IsSpace(t[i])}
        k == IF blanks = {} THEN Len(t) + 1
             ELSE CHOOSE i \in blanks : \A j \in blanks : i <= j
        rest == LStrip(SubSeq(t, k, Len(t)))
    IN  IF t = <<>> THEN <<>>
        ELSE IF rest = <<>> THEN <<SubSeq(t, 1, k - 1)>>
        ELSE <<SubSeq(t, 1, k - 1), rest>>

KwRead == <<"!", "r", "e", "a", "d">>
KwWrite == <<"!", "w", "r", "i", "t", "e">>
KwEdit == <<"!", "e", "d", "i", "t">>
KwRun == <<"!", "r", "u", "n">>
KwExec == <<"!", "e", "x", "e", "c">>
KwFind == <<"!", "f", "i", "n", "d">>
KwSearch == <<"!", "s", "e", "a", "r", "c", "h">>
KwList == <<"!", "l", "i", "s", "t">>
KwLs == <<"!", "l", "s">>

force_keywords == {KwRead, KwWrite, KwEdit, KwRun, KwExec, KwFind, KwSearch, KwList, KwLs}

\* _has_force_keywords
has_force_keywords(text) == \E keyword \in force_keywords : IsInfix(keyword, Lower(text))

\* keyword_map of _handle_force_keywords
keyword_map(argument) ==
    (KwRead :> [action |-> "read_file", params |-> ("path" :> argument)])
    @@ (KwWrite :> [action |-> "write_file",
                    params |-> ("path" :> argument)
                               @@ ("content" :> <<"P", "l", "e", "a", "s", "e">>)])
    @@ (KwList :> [action |-> "list_directory", params |-> ("path" :> argument)])
    @@ (KwLs :> [action |-> "list_directory", params |-> ("path" :> argument)])
    @@ (KwRun :> [action |-> "run_command", params |-> ("cmd" :> argument)])
    @@ (KwExec :> [action |-> "run_command", params |-> ("cmd" :> argument)])
    @@ (KwFind :> [action |-> "find_files", params |-> ("pattern" :> argument)])
    @@ (KwSearch :> [action |-> "find_files", params |-> ("pattern" :> argument)])

\* _needs_tools.  The kind of an input says which family of its regular
\* expressions matches: "greeting", "knowledge" (a knowledge question that
\* names no file or code), "tool_pattern", or "plain" for none of them.
needs_tools(input, ai_response) ==
    IF input.kind \in {"greeting", "knowledge"} THEN FALSE
    ELSE IF input.kind = "tool_pattern" THEN TRUE
    ELSE ai_response.suggests

\* _parse_tools_from_response: the first JSON array of the response, if the
\* text before it announces an execution and nothing marks it as an example
parse_tools_from_response(response) ==
    IF response.has_array /\ response.indicated THEN response.array ELSE <<>>

\* _extract_tool_requests: the array of the model's answer; [] without one;
\* when the call or the parsing raises, [] or, if the message of the
\* exception holds "json", the array of the initial response
extract_tool_requests(answer, response) ==
    CASE answer.kind = "array" -> answer.list
      [] answer.kind = "no_array" -> <<>>
      [] answer.kind = "raised" ->
            IF answer.json /\ response.has_array THEN response.array ELSE <<>>

\* a plausible slip: the extraction is asked for whatever _needs_tools said
AfterNeedCheck_always_extract(needed) == "p_extract"

\* `if not self._needs_tools(...): return initial_response, []`
AfterNeedCheck(needed) == IF needed THEN "p_extract" ELSE "p_done"

execVars == <<objs, cache, sStatus, sWorker, sYielded, sResults, sSerial, execLog, trackerFailed,
              timeouts, ctxResults, retry_count, corrected_requests, results,
              origSnapshot>>

\* step 1: the force keywords
Route ==
    /\ sPc = "p_start"
    /\ sPc' = IF has_force_keywords(user_input.text) THEN "f_handle" ELSE "p_initial"
    /\ UNCHANGED <<execVars, sRound, sRequests, outcome, frontVars, llmCalls>>

\* _handle_force_keywords up to the call of _execute_single_tool
HandleForce ==
    LET parts == Split1(user_input.text) IN
    /\ sPc = "f_handle"
    /\ IF Len(parts) < 2
       THEN /\ outcome' = [response |-> "force_needs_argument", results |-> <<>>]
            /\ sPc' = "p_done"
            /\ UNCHANGED <<sRound, sRequests, sStatus, sWorker>>
       ELSE IF Lower(parts[1]) \notin DOMAIN keyword_map(parts[2])
       THEN /\ outcome' = [response |-> "force_unknown_keyword", results |-> <<>>]
            /\ sPc' = "p_done"
            /\ UNCHANGED <<sRound, sRequests, sStatus, sWorker>>
       ELSE /\ sRequests' = <<keyword_map(parts[2])[Lower(parts[1])]>>
            /\ sRound' = "force"
            /\ sStatus' = <<"pending">>
            /\ sWorker' = <<0>>
            /\ sPc' = "f_exec"
            /\ UNCHANGED outcome
    /\ UNCHANGED <<objs, cache, sYielded, sResults, sSerial, execLog, trackerFailed, timeouts, ctxResults,
                   retry_count, corrected_requests, results, origSnapshot, frontVars,
                   llmCalls>>

\* _execute_single_tool called by _handle_force_keywords
ForceBegin ==
    /\ sPc = "f_exec"
    /\ BeginSingle(1)
    /\ UNCHANGED <<sPc, sYielded, sResults, sSerial, timeouts, procVars>>

ForceEnd(raised) ==
    /\ sPc = "f_exec"
    /\ EndSingle(1, raised)
    /\ UNCHANGED <<sPc, sYielded, sResults, sSerial, timeouts, procVars>>

\* the acknowledgement of _handle_force_keywords
ForceReturn ==
    /\ sPc = "f_exec"
    /\ sStatus[1] = "done"
    /\ outcome' = [response |-> IF objs[sWorker[1]].success THEN "force_executed"
                                ELSE "force_failed",
                   results |-> <<sWorker[1]>>]
    /\ sPc' = "p_done"
    /\ UNCHANGED <<execVars, sRound, sRequests, frontVars, llmCalls>>

\* step 2: _get_initial_ai_response; when the model call raises, the text it
\* returns holds no array and no suggestion
GetInitialResponse(response) ==
    /\ sPc = "p_initial"
    /\ initial_response' = response
    /\ llmCalls' = Append(llmCalls, "main")
    /\ sPc' = "p_parse"
    /\ UNCHANGED <<execVars, sRound, sRequests, outcome, user_input, need_check>>

\* a plausible slip: the tools of the initial response are not looked at
AfterParseInitial_always_ask(initial_tools) == "p_needs"

\* `if initial_tools: tool_requests = initial_tools  else: ...`
AfterParseInitial(initial_tools) ==
    IF initial_tools # <<>> THEN "x_enter" ELSE "p_needs"

\* step 3: the tools of the initial response form the batch
ParseInitial ==
    LET initial_tools == parse_tools_from_response(initial_response) IN
    /\ sPc = "p_parse"
    /\ IF AfterParseInitial(initial_tools) = "x_enter"
       THEN /\ sRequests' = initial_tools
            /\ sRound' = "original"
            /\ sPc' = "x_enter"
       ELSE /\ sPc' = "p_needs"
            /\ UNCHANGED <<sRound, sRequests>>
    /\ UNCHANGED <<execVars, outcome, frontVars, llmCalls>>

\* step 3b
CheckNeeds ==
    LET needed == needs_tools(user_input, initial_response) IN
    /\ sPc = "p_needs"
    /\ need_check' = IF needed THEN "yes" ELSE "no"
    /\ sPc' = AfterNeedCheck(needed)
    /\ outcome' = IF AfterNeedCheck(needed) = "p_done"
                  THEN [response |-> "initial", results |-> <<>>]
                  ELSE outcome
    /\ UNCHANGED <<execVars, sRound, sRequests, user_input, initial_response, llmCalls>>

\* step 4
ExtractToolRequests(answer) ==
    LET tool_requests == extract_tool_requests(answer, initial_response) IN
    /\ sPc = "p_extract"
    /\ llmCalls' = Append(llmCalls, "tool_extraction")
    /\ IF tool_requests = <<>>
       THEN /\ outcome' = [response |-> "initial", results |-> <<>>]
            /\ sPc' = "p_done"
            /\ UNCHANGED <<sRound, sRequests>>
       ELSE /\ sRequests' = tool_requests
            /\ sRound' = "original"
            /\ sPc' = "x_enter"
            /\ UNCHANGED outcome
    /\ UNCHANGED <<execVars, frontVars>>

\* the inputs of process_user_request
ForcedTexts ==
    {KwRead \o <<" ", "a">>,
     <<"!", "R", "E", "A", "D", " ", "a">>,
     KwRead,
     KwEdit \o <<" ", "a">>,
     <<"x", " ">> \o KwRead \o <<" ", "a">>,
     KwWrite \o <<" ", "a", " ">>}
UserInputs ==
    {[text |-> t, kind |-> "plain"] : t \in ForcedTexts}
    \cup {[text |-> <<"h", "i">>, kind |-> "greeting"],
          [text |-> <<"w", "h", "a", "t", " ", "i", "s", " ", "x">>, kind |-> "knowledge"],
          [text |-> <<"r", "e", "a", "d", " ", "a">>, kind |-> "tool_pattern"],
          [text |-> <<"d", "o">>, kind |-> "plain"]}

\* what the model may answer first: plain text, with or without a phrase
\* that suggests a tool; an announced array of tool calls; an array given as
\* an example
InitialResponses ==
    {[has_array |-> FALSE, array |-> <<>>, indicated |-> FALSE, suggests |-> sg] :
        sg \in BOOLEAN}
    \cup {[has_array |-> TRUE, array |-> b, indicated |-> TRUE, suggests |-> FALSE] :
             b \in SmartBatches}
    \cup {[has_array |-> TRUE, array |-> <<ReadA>>, indicated |-> FALSE, suggests |-> TRUE]}

\* what the model may answer to the extraction prompt
ExtractionAnswers ==
    {[kind |-> "array", list |-> b, json |-> FALSE] : b \in SmartBatches \cup {<<>>}}
    \cup {[kind |-> "no_array", list |-> <<>>, json |-> FALSE]}
    \cup {[kind |-> "raised", list |-> <<>>, json |-> j] : j \in BOOLEAN}

\* process_user_request is called in a process that has executed nothing yet
SmartInit ==
    /\ objs = <<>>
    /\ cache = <<>>
    /\ sPc = "p_start"
    /\ sRound = "none"
    /\ sRequests = <<>>
    /\ sStatus = <<>>
    /\ sWorker = <<>>
    /\ sYielded = {}
    /\ sResults = <<>>
    /\ sSerial = 0
    /\ ctxResults = <<>>
    /\ retry_count = 0
    /\ corrected_requests = <<>>
    /\ results = <<>>
    /\ user_input \in UserInputs
    /\ initial_response = NoResponse
    /\ need_check = "unasked"
    /\ outcome = NoOutcome
    /\ execLog = <<>>
    /\ trackerFailed = FALSE
    /\ llmCalls = <<>>
    /\ timeouts = {}
    /\ origSnapshot = <<>>

InitSmart == SmartInit /\ ValidatorInit /\ AnalyzerIdle /\ ExecutorIdle /\ ParserIdle /\ SessionIdle

SmartNext ==
    \/ Route /\ UNCHANGED <<valVars, anVars, exVars, parseVars, sessVars>>
    \/ HandleForce /\ UNCHANGED <<valVars, anVars, exVars, parseVars, sessVars>>
    \/ ForceBegin /\ UNCHANGED <<valVars, anVars, exVars, parseVars, sessVars>>
    \/ \E raised \in BOOLEAN : ForceEnd(raised) /\ UNCHANGED <<valVars, anVars, exVars, parseVars, sessVars>>
    \/ ForceReturn /\ UNCHANGED <<valVars, anVars, exVars, parseVars, sessVars>>
    \/ \E response \in InitialResponses :
          GetInitialResponse(response) /\ UNCHANGED <<valVars, anVars, exVars, parseVars, sessVars>>
    \/ ParseInitial /\ UNCHANGED <<valVars, anVars, exVars, parseVars, sessVars>>
    \/ CheckNeeds /\ UNCHANGED <<valVars, anVars, exVars, parseVars, sessVars>>
    \/ \E answer \in ExtractionAnswers :
          ExtractToolRequests(answer) /\ UNCHANGED <<valVars, anVars, exVars, parseVars, sessVars>>
    \/ EnterExecute /\ UNCHANGED <<valVars, anVars, exVars, parseVars, sessVars>>
    \/ \E i \in 1..Len(sRequests) : SmartPoolBegin(i) /\ UNCHANGED <<valVars, anVars, exVars, parseVars, sessVars>>
    \/ \E i \in 1..Len(sRequests), raised \in BOOLEAN :
          SmartPoolEnd(i, raised) /\ UNCHANGED <<valVars, anVars, exVars, parseVars, sessVars>>
    \/ \E i \in 1..Len(sRequests) : AsCompletedYield(i) /\ UNCHANGED <<valVars, anVars, exVars, parseVars, sessVars>>
    \/ AsCompletedDone /\ UNCHANGED <<valVars, anVars, exVars, parseVars, sessVars>>
    \/ AsCompletedTimeout /\ UNCHANGED <<valVars, anVars, exVars, parseVars, sessVars>>
    \/ PoolExit /\ UNCHANGED <<valVars, anVars, exVars, parseVars, sessVars>>
    \/ PoolExitRaising /\ UNCHANGED <<valVars, anVars, exVars, parseVars, sessVars>>
    \/ SerialBegin /\ UNCHANGED <<valVars, anVars, exVars, parseVars, sessVars>>
    \/ \E raised \in BOOLEAN : SerialEnd(raised) /\ UNCHANGED <<valVars, anVars, exVars, parseVars, sessVars>>
    \/ SerialAppend /\ UNCHANGED <<valVars, anVars, exVars, parseVars, sessVars>>
    \/ ReturnResults /\ UNCHANGED <<valVars, anVars, exVars, parseVars, sessVars>>
    \/ CheckFailures /\ UNCHANGED <<valVars, anVars, exVars, parseVars, sessVars>>
    \/ CorrectionUnparsed /\ UNCHANGED <<valVars, anVars, exVars, parseVars, sessVars>>
    \/ \E array \in CorrectedArrays : Correction(array) /\ UNCHANGED <<valVars, anVars, exVars, parseVars, sessVars>>
    \/ MergeCorrected /\ UNCHANGED <<valVars, anVars, exVars, parseVars, sessVars>>
    \/ \E presented \in BOOLEAN : Summarize(presented) /\ UNCHANGED <<valVars, anVars, exVars, parseVars, sessVars>>

SpecSmart == InitSmart /\ [][SmartNext]_vars

-----------------------------------------------------------------------------
\* smart_tool_system, the one SmartToolSystem of the process, is given one
\* force-keyword request after the other; its cache lives on between them
RepeatTexts == {KwRead \o <<" ", "a">>, KwWrite \o <<" ", "a">>}

\* the next call of process_user_request on the same object
CallAgain(text) ==
    /\ sPc = "p_done"
    /\ Len(objs) < MaxToolResults
    /\ user_input' = [text |-> text, kind |-> "plain"]
    /\ sPc' = "p_start"
    /\ sRound' = "none"
    /\ sRequests' = <<>>
    /\ sStatus' = <<>>
    /\ sWorker' = <<>>
    /\ outcome' = NoOutcome
    /\ UNCHANGED <<objs, cache, sYielded, sResults, sSerial, ctxResults, retry_count,
                   corrected_requests, results, initial_response, need_check, execLog,
                   trackerFailed, llmCalls, timeouts, origSnapshot>>

InitRepeat ==
    /\ SmartInit
    /\ user_input.text \in RepeatTexts
    /\ ValidatorInit /\ AnalyzerIdle /\ ExecutorIdle /\ ParserIdle /\ SessionIdle

RepeatNext ==
    \/ Route /\ UNCHANGED <<valVars, anVars, exVars, parseVars, sessVars>>
    \/ HandleForce /\ UNCHANGED <<valVars, anVars, exVars, parseVars, sessVars>>
    \/ ForceBegin /\ UNCHANGED <<valVars, anVars, exVars, parseVars, sessVars>>
    \/ \E raised \in BOOLEAN : ForceEnd(raised) /\ UNCHANGED <<valVars, anVars, exVars, parseVars, sessVars>>
    \/ ForceReturn /\ UNCHANGED <<valVars, anVars, exVars, parseVars, sessVars>>
    \/ \E text \in RepeatTexts : CallAgain(text) /\ UNCHANGED <<valVars, anVars, exVars, parseVars, sessVars>>

SpecRepeat == InitRepeat /\ [][RepeatNext]_vars

-----------------------------------------------------------------------------
(* execute_tool_calls of core/session.py *)

\* the characters of a known file name
NameChars(name) == IF name = "a.py" THEN <<"a", ".", "p", "y">> ELSE <<>>

\* suggest_alternative: the pattern of the previous search, the names of the
\* matching known files, or None
suggest_alternative(tool_name, args) ==
    LET pattern == Get(args, "pattern", EmptyStr)
        matching_files == {f \in known_files : IsInfix(Lower(pattern), Lower(NameChars(f)))}
    IN  IF tool_name # "find_files" THEN [given |-> FALSE, kind |-> "none", files |-> {}]
        ELSE IF pattern \in DOMAIN found_files_cache
        THEN [given |-> TRUE, kind |-> "already_performed", files |-> {}]
        ELSE IF matching_files # {}
        THEN [given |-> TRUE, kind |-> "already_found", files |-> matching_files]
        ELSE [given |-> FALSE, kind |-> "none", files |-> {}]

\* the tools whose call is skipped for a missing parameter; the result is then
\* an error text
SessionMissing(call) ==
    LET arg(k) == Get(call.args, k, NoneVal) IN
    CASE call.name = "read_file" -> Falsy(PyOr(arg("path"), PyOr(arg("arg1"), arg("arg"))))
      [] call.name = "write_file" ->
            \/ Falsy(PyOr(arg("path"), arg("arg1")))
            \/ Falsy(PyOr(arg("edits"), arg("arg2")))
      [] call.name = "run_command" -> Falsy(PyOr(arg("cmd"), PyOr(arg("arg1"), arg("arg"))))
      [] OTHER -> FALSE

\* the tools execute_tool_calls has a branch for
SessionTools == {"read_file", "write_file", "run_command", "find_files", "list_directory"}

\* an entry of results: the kind of the text, the tool it names and the reason
\* or message it carries
Entry(kind, tool_name, message) == [kind |-> kind, tool |-> tool_name, message |-> message]

\* the pair the loop is at
Match == matches[matchIdx]

NextMatch ==
    IF matchIdx < Len(matches)
    THEN matchIdx' = matchIdx + 1 /\ sessPc' = "validate"
    ELSE matchIdx' = matchIdx /\ sessPc' = "returned"

\* json.loads(args_str) raises: the except branch appends the error
SessionParseError ==
    /\ sessPc = "validate"
    /\ Match.malformed
    /\ session_results' = Append(session_results,
                                 Entry("parse_error", Match.name, ExceptionText))
    /\ NextMatch
    /\ UNCHANGED <<matches, toolLog, valVars>>

\* a plausible slip: the refusal is only logged and the lookup goes on
AfterValidate_ignoring(should_execute, tool_name) ==
    IF tool_name \notin TOOL_REGISTRY THEN "not_found" ELSE "call"

\* `if not should_execute: ... continue`, then `if tool_name in TOOL_REGISTRY`
AfterValidate(should_execute, tool_name) ==
    IF ~should_execute THEN "refused"
    ELSE IF tool_name \notin TOOL_REGISTRY THEN "not_found" ELSE "call"

\* the arguments parse and validate_tool_call decides: a refused call gets its
\* entry and the loop continues; a name the registry does not hold gets its
\* error entry; otherwise the call comes next
SessionValidate ==
    LET v == ValidateResult(Match.name, Match.args)
        suggestion == suggest_alternative(Match.name, Match.args)
        branch == AfterValidate(v.allowed, Match.name)
    IN
    /\ sessPc = "validate"
    /\ ~Match.malformed
    /\ validate_tool_call(Match.name, Match.args)
    /\ IF branch = "refused"
       THEN /\ session_results' = Append(session_results,
                  IF suggestion.given
                  THEN Entry("suggestion", Match.name, FString(<<suggestion.kind>>))
                  ELSE Entry("skipped", Match.name, BlockReason(Match.name, v.reason)))
            /\ NextMatch
       ELSE IF branch = "not_found"
       THEN /\ session_results' = Append(session_results,
                  Entry("not_found", Match.name, NotFoundError(Match.name)))
            /\ NextMatch
       ELSE /\ sessPc' = "call"
            /\ UNCHANGED <<matchIdx, session_results>>
    /\ UNCHANGED <<matches, toolLog>>

\* the branch of the tool: the tool function returns and the call is recorded,
\* also when the branch only made an error text; or the tool function raises
\* and the except branch appends the error
SessionCall(raised, result) ==
    LET called == Match.name \in SessionTools /\ ~SessionMissing(Match) IN
    /\ sessPc = "call"
    /\ toolLog' = IF called THEN Append(toolLog, matchIdx) ELSE toolLog
    /\ IF called /\ raised
       THEN /\ session_results' = Append(session_results,
                                         Entry("exec_error", Match.name, ExceptionText))
            /\ UNCHANGED valVars
       ELSE /\ record_tool_call(Match.name, Match.args,
                                IF called THEN result ELSE OtherResult)
            /\ session_results' = Append(session_results,
                  Entry(IF called THEN "result" ELSE "error_text", Match.name, NoneVal))
    /\ NextMatch
    /\ UNCHANGED matches

\* the tool calls of the responses
SessionCalls ==
    {[name |-> "find_files", args |-> ("pattern" :> Str("a")), malformed |-> FALSE],
     [name |-> "read_file", args |-> ("path" :> Str("a")), malformed |-> FALSE],
     [name |-> "read_file", args |-> EmptyDict, malformed |-> FALSE],
     [name |-> "bogus", args |-> ("path" :> Str("a")), malformed |-> FALSE],
     [name |-> "bogus", args |-> EmptyDict, malformed |-> FALSE],
     [name |-> "read_file", args |-> EmptyDict, malformed |-> TRUE]}
SessionResponses == UNION {[1..n -> SessionCalls] : n \in 1..MaxMatches}

\* `for tool_name, args_str in matches` is entered
SessionInit ==
    /\ matches \in SessionResponses
    /\ matchIdx = 1
    /\ session_results = <<>>
    /\ toolLog = <<>>
    /\ sessPc = "validate"

InitSession ==
    SessionInit /\ ValidatorInit /\ AnalyzerIdle /\ ExecutorIdle /\ SmartIdle /\ ParserIdle

SessionNext ==
    \/ SessionParseError /\ UNCHANGED <<anVars, exVars, smVars, parseVars>>
    \/ SessionValidate /\ UNCHANGED <<anVars, exVars, smVars, parseVars>>
    \/ /\ sessPc = "call"
       /\ \E raised \in BOOLEAN :
             \E result \in ResultsOf(Match) : SessionCall(raised, result)
       /\ UNCHANGED <<anVars, exVars, smVars, parseVars>>

SpecSession == InitSession /\ [][SessionNext]_vars

-----------------------------------------------------------------------------
(* The engines side by side: a behaviour of SpecEngines is one of           *)
(* execute_tools_parallel or of process_user_request, a behaviour of        *)
(* SpecValidated one of execute_tools_parallel or of execute_tool_calls,    *)
(* the two engines that ask the validator                                   *)

\* a name the registry does not hold, without arguments
UnknownEmpty == [name |-> "bogus", args |-> EmptyDict]

EnginesClaudeInit ==
    /\ tool_calls \in ExecBatches \cup {<<UnknownEmpty>>}
    /\ independent_groups = <<>>
    /\ dependent_chains = <<>>
    /\ mainPc = "start"

InitEngines ==
    \/ /\ EnginesClaudeInit
       /\ ExecutorIdle /\ ValidatorInit /\ SmartIdle /\ ParserIdle /\ SessionIdle
    \/ InitSmart

EnginesNext == ClaudeNext \/ SmartNext

SpecEngines == InitEngines /\ [][EnginesNext]_vars

InitValidated ==
    \/ /\ EnginesClaudeInit
       /\ ExecutorIdle /\ ValidatorInit /\ SmartIdle /\ ParserIdle /\ SessionIdle
    \/ InitSession

ValidatedNext == ClaudeNext \/ SessionNext

SpecValidated == InitValidated /\ [][ValidatedNext]_vars

-----------------------------------------------------------------------------
(* ClaudeToolSystem.parse_tool_calls *)

\* A text is the sequence of the well-formed encoded calls it holds.  format:
\*   "marker"      TOOL_CALL: name / ARGS: {...}
\*   "marker_bad"  the same, where the text matched for ARGS is not JSON
\*   "block"      the same inside a ```tool_call fence
\*   "invoke"     <invoke name="name"><parameter name="k">raw</parameter>...
\*   "json_block" a JSON array of {"tool", "args"} objects inside a ```json fence
\*   "json"       such an array in the running text
\* pairs are the members of the ARGS object, or the parameters, in the order
\* of the text; elements are the objects of an array.

\* JSON values: a string and a number
JS(chars) == [t |-> "str", v |-> chars]
JI(digits) == [t |-> "int", v |-> digits]
\* a JSON array as a value, by the text between its brackets: a Python list
JL(chars) == [t |-> "list", v |-> chars]
\* the text between <parameter ...> and </parameter>, not yet parsed
Raw(chars) == [t |-> "raw", v |-> chars]

\* json.loads of an object: a dict, the last of equal keys wins
JsonObject(pairs) ==
    [k \in {pairs[i][1] : i \in 1..Len(pairs)} |->
        pairs[CHOOSE i \in 1..Len(pairs) :
                 /\ pairs[i][1] = k
                 /\ \A j \in 1..Len(pairs) : pairs[j][1] = k => j <= i][2]]

Digits == {"0", "1", "2", "3", "4", "5", "6", "7", "8", "9"}

\* _parse_function_parameters on one value: json.loads of the stripped text
\* and, when that raises, the stripped text itself
ParseParam(raw) ==
    LET text == Strip(raw.v)
        quote == "\""
    IN  IF /\ text # <<>>
           /\ \A i \in 1..Len(text) : text[i] \in Digits
           /\ (Len(text) = 1 \/ text[1] # "0")
        THEN JI(text)
        ELSE IF /\ Len(text) >= 2
                /\ text[1] = quote
                /\ text[Len(text)] = quote
                /\ \A i \in 2..(Len(text) - 1) : text[i] \notin {quote, "\\"}
        THEN JS(SubSeq(text, 2, Len(text) - 1))
        ELSE JS(text)

\* _parse_function_parameters
parse_function_parameters(params) ==
    JsonObject([i \in 1..Len(params) |-> <<params[i][1], ParseParam(params[i][2])>>])

ToolCall(name, args) == [name |-> name, args |-> args]

\* an object of a JSON array: "tool" and "args", where args is an object, given
\* by its members, or some other JSON value
Element(tool, pairs) == [tool |-> tool, mapping |-> TRUE, pairs |-> pairs]
ElementOther(tool, value) ==
    [tool |-> tool, mapping |-> FALSE, pairs |-> << <<"args", value>> >>]

RECURSIVE ArrayCalls(_)
\* the calls of the arrays of a sequence of segments: every object of an array
ArrayCalls(segments) ==
    IF segments = <<>> THEN <<>>
    ELSE [i \in 1..Len(Head(segments).elements) |->
             ToolCall(Head(segments).elements[i].tool,
                      IF Head(segments).elements[i].mapping
                      THEN JsonObject(Head(segments).elements[i].pairs)
                      ELSE Head(segments).elements[i].pairs[1][2])]
         \o ArrayCalls(Tail(segments))

OfFormat(text, formats) == SelectSeq(text, LAMBDA seg : seg.format \in formats)

\* whether _safe_json_parse returns for the ARGS text of a marker match; when
\* it raises, the match is logged and left out
JsonParses(seg) == seg.format # "marker_bad"

\* tool_calls before the duplicates are removed: the matches of pattern1 (a
\* fenced marker call matches it too), of pattern1b, of pattern2, the arrays
\* of the ```json fences and the arrays of the rest of the text
AllMatches(text) ==
    LET matches1 == SelectSeq(OfFormat(text, {"marker", "block", "marker_bad"}), JsonParses)
        matches1b == OfFormat(text, {"block"})
        matches2 == OfFormat(text, {"invoke"})
    IN  [i \in 1..Len(matches1) |-> ToolCall(matches1[i].name, JsonObject(matches1[i].pairs))]
        \o [i \in 1..Len(matches1b) |->
               ToolCall(matches1b[i].name, JsonObject(matches1b[i].pairs))]
        \o [i \in 1..Len(matches2) |->
               ToolCall(matches2[i].name, parse_function_parameters(matches2[i].pairs))]
        \o ArrayCalls(OfFormat(text, {"json_block"}))
        \o ArrayCalls(OfFormat(text, {"json"}))

\* args is a dict; what is not a dict in the texts is a single JSON value,
\* which the model tags with t and v
IsMapping(args) == DOMAIN args # {"t", "v"}

\* `if call.args`
Truthy(args) == IF IsMapping(args) THEN args # EmptyDict ELSE args.v # <<>>

\* whether the call_signature line raises for a call: call.args.items() of a
\* value that is not a dict, or hash() of a frozenset that holds a list
SignatureRaises(call) ==
    /\ Truthy(call.args)
    /\ \/ ~IsMapping(call.args)
       \/ \E k \in DOMAIN call.args : call.args[k].t = "list"

\* whether parse_tool_calls leaves by an exception: nothing catches what the
\* loop over tool_calls raises
ParseRaises(text) ==
    \E i \in 1..Len(AllMatches(text)) : SignatureRaises(AllMatches(text)[i])

\* call_signature: the name and the hash of the frozenset of the items
call_signature(call) == <<call.name, {<<k, call.args[k]>> : k \in DOMAIN call.args}>>

RECURSIVE RemoveDuplicates(_, _)
\* the loop over tool_calls with the set `seen`
RemoveDuplicates(calls, seen) ==
    IF calls = <<>> THEN <<>>
    ELSE IF call_signature(Head(calls)) \in seen
    THEN RemoveDuplicates(Tail(calls), seen)
    ELSE <<Head(calls)>>
         \o RemoveDuplicates(Tail(calls), seen \cup {call_signature(Head(calls))})

\* a plausible slip: the matches are returned as collected
parse_tool_calls_keep_duplicates(text) == AllMatches(text)

\* parse_tool_calls: collect, then remove the duplicates
parse_tool_calls(text) == RemoveDuplicates(AllMatches(text), {})

\* the encoded calls of the texts
ParserNames == {"read_file", "find_files"}
ObjectTexts ==
    {<< <<"path", JS(<<"a">>)>> >>,
     << <<"path", JS(<<"a">>)>>, <<"n", JI(<<"1">>)>> >>,
     << <<"n", JI(<<"1">>)>>, <<"path", JS(<<"a">>)>> >>,
     << <<"path", JS(<<"1">>)>> >>}
ParamTexts ==
    {<< <<"path", Raw(<<"a">>)>> >>,
     << <<"n", Raw(<<" ", "1">>)>>, <<"path", Raw(<<"\"", "a", "\"">>)>> >>,
     << <<"path", Raw(<<"1">>)>> >>}
Segment(format, name, pairs, elements) ==
    [format |-> format, name |-> name, pairs |-> pairs, elements |-> elements]
\* candidates whose arguments are not a flat dict of strings and numbers: a
\* list as a value, an ARGS text that is not JSON, args that is a string
OddSegments ==
    {Segment("marker", "read_file", << <<"paths", JL(<<"a">>)>> >>, <<>>),
     Segment("marker_bad", "read_file", <<>>, <<>>),
     Segment("json", "", <<>>, <<ElementOther("read_file", JS(<<"a">>))>>)}
Segments ==
    {Segment(f, n, o, <<>>) : f \in {"marker", "block"}, n \in ParserNames, o \in ObjectTexts}
    \cup {Segment("invoke", n, q, <<>>) : n \in ParserNames, q \in ParamTexts}
    \cup {Segment(f, "", <<>>, <<Element(n, o)>>) :
             f \in {"json_block", "json"}, n \in ParserNames, o \in ObjectTexts}
    \cup {Segment("json", "", <<>>,
                  <<Element("find_files", << <<"path", JS(<<"a">>)>> >>),
                    Element("read_file", << <<"path", JS(<<"a">>)>> >>)>>)}
    \cup OddSegments
ParserTexts == UNION {[1..n -> Segments] : n \in 0..MaxSegments}

ParserInit ==
    /\ response_text \in ParserTexts
    /\ unique_calls = <<>>
    /\ parsePc = "start"

ParseToolCalls ==
    /\ parsePc = "start"
    /\ IF ParseRaises(response_text)
       THEN /\ parsePc' = "raised"
            /\ UNCHANGED unique_calls
       ELSE /\ unique_calls' = parse_tool_calls(response_text)
            /\ parsePc' = "done"
    /\ UNCHANGED response_text

InitParse ==
    ParserInit /\ ValidatorInit /\ AnalyzerIdle /\ ExecutorIdle /\ SmartIdle /\ SessionIdle

ParseNext == ParseToolCalls /\ UNCHANGED <<valVars, anVars, exVars, smVars, sessVars>>

SpecParse == InitParse /\ [][ParseNext]_vars

-----------------------------------------------------------------------------
(* Claims about the validator, checked under SpecValidator *)

\* C1: a validate_tool_call(T) made while the unbroken run of
\* record_tool_call(T) is exactly MAX_CONSECUTIVE_SAME_TOOL long (no record of
\* another tool, no reset_context since) returns not-allowed; and the
\* validate_tool_call(T) that immediately follows a record_tool_call of another
\* tool U is never blocked by the consecutive-limit rule.
C1_ConsecutiveLimit ==
    [][ lastOp'.op = "validate" =>
          /\ (run.len = MAX_CONSECUTIVE_SAME_TOOL /\ lastOp'.tool = run.tool
                => ~ret'.allowed)
          /\ (lastOp.op = "record" /\ lastOp.tool # lastOp'.tool
                => ret'.reason # "consecutive") ]_vars

\* a validate_tool_call of tool T, with arguments that are not empty, was just
\* blocked by the consecutive-limit rule after a run of exactly two records of T
C1_Witness ==
    /\ lastOp.op = "validate"
    /\ run.len = MAX_CONSECUTIVE_SAME_TOOL
    /\ lastOp.tool = run.tool
    /\ ret = [allowed |-> FALSE, reason |-> "consecutive"]

\* the arguments of the claim: a search whose pattern is "*" or empty, a read
\* whose path is empty
DegenerateSearchArgs ==
    {a \in ValArgs : Get(a, "pattern", Get(a, "arg1", EmptyStr)) \in {EmptyStr, Str("*")}}
EmptyPathArgs ==
    {a \in ValArgs : Get(a, "path", Get(a, "arg1", EmptyStr)) = EmptyStr}

\* C2: in every reachable state, validate_tool_call("find_files", pattern "*"
\* or empty) and validate_tool_call("read_file", empty path) return
\* not-allowed and leave the consecutive counts, the recent searches, the
\* search cache and the known-files set as they were.
C2_DegenerateAlwaysBlocked ==
    [][ lastOp'.op = "validate" =>
          \A a \in IF lastOp'.tool = "find_files" THEN DegenerateSearchArgs
                    ELSE IF lastOp'.tool = "read_file" THEN EmptyPathArgs ELSE {} :
              validate_tool_call(lastOp'.tool, a) =>
                 /\ ~ret'.allowed
                 /\ UNCHANGED <<consecutive_tool_counts, recent_searches,
                                found_files_cache, known_files>> ]_vars

\* a degenerate search was just blocked for its arguments in a state where the
\* consecutive limit of find_files is reached too and the search cache is filled
C2_Witness ==
    /\ lastOp = [op |-> "validate", tool |-> "find_files"]
    /\ ret = [allowed |-> FALSE, reason |-> "empty_args"]
    /\ CountOf("find_files") >= MAX_CONSECUTIVE_SAME_TOOL
    /\ DOMAIN found_files_cache # {}
    /\ recent_searches # <<>>

-----------------------------------------------------------------------------
(* Claims about _analyze_dependencies, checked under SpecAnalyze *)

IsFileRequest(i) == tool_calls[i].name \in FileTools
PathOf(i) == ResolvedPath(tool_calls[i].args)
Positions == 1..Len(tool_calls)

\* requests i and j are in one dependent chain, i before j
ChainedInOrder(i, j) ==
    \E c \in 1..Len(dependent_chains) :
        \E p, q \in 1..Len(dependent_chains[c]) :
            p < q /\ dependent_chains[c][p] = i /\ dependent_chains[c][q] = j

\* request i is an independent group of its own
OwnGroup(i) == \E g \in 1..Len(independent_groups) : independent_groups[g] = <<i>>

\* one independent group holds all the requests of S
OneGroupHolds(S) ==
    S # {} => \E g \in 1..Len(independent_groups) :
                 \A i \in S : InSeq(i, independent_groups[g])

\* C3 as stated: equal resolved paths (whatever they are) share a chain in
\* batch order, a file request with an unshared path is a group of its own,
\* the requests of other tools are together in one group.
C3_AsStated ==
    mainPc = "analyzed" =>
        /\ \A i, j \in Positions :
              (i < j /\ IsFileRequest(i) /\ IsFileRequest(j) /\ PathOf(i) = PathOf(j))
                 => ChainedInOrder(i, j)
        /\ \A i \in Positions :
              (IsFileRequest(i) /\
               \A j \in Positions \ {i} : IsFileRequest(j) => PathOf(j) # PathOf(i))
                 => OwnGroup(i)
        /\ OneGroupHolds({i \in Positions : ~IsFileRequest(i)})

\* C3, amended: the same for file requests whose resolved path is not empty;
\* a file request without a path is grouped with the requests of other tools.
C3_PathGrouping ==
    mainPc = "analyzed" =>
        /\ \A i, j \in Positions :
              (i < j /\ IsFileRequest(i) /\ IsFileRequest(j)
                 /\ ~Falsy(PathOf(i)) /\ PathOf(i) = PathOf(j))
                 => ChainedInOrder(i, j)
        /\ \A i \in Positions :
              (IsFileRequest(i) /\ ~Falsy(PathOf(i)) /\
               \A j \in Positions \ {i} : IsFileRequest(j) => PathOf(j) # PathOf(i))
                 => OwnGroup(i)
        /\ OneGroupHolds({i \in Positions : ~IsFileRequest(i) \/ Falsy(PathOf(i))})
        /\ \A i \in Positions :
              (IsFileRequest(i) /\ ~Falsy(PathOf(i)))
                 => ~InSeq(i, other_tools(tool_calls))

\* an analysed batch with a chain of two requests of different tools on one
\* path, a file request alone on its path in a group of its own, and a file
\* request without a path in the group of the other tools
C3_Witness ==
    /\ mainPc = "analyzed"
    /\ \E i, j \in Positions : i < j /\ PathOf(i) = PathOf(j) /\ ChainedInOrder(i, j)
                                 /\ tool_calls[i].name # tool_calls[j].name
    /\ \E i \in Positions : IsFileRequest(i) /\ OwnGroup(i)
    /\ \E j \in Positions :
          /\ IsFileRequest(j) /\ Falsy(PathOf(j))
          /\ InSeq(j, independent_groups[Len(independent_groups)])

-----------------------------------------------------------------------------
(* Claims about execute_tools_parallel, checked under SpecClaude *)

Started(i) == i \in DOMAIN status /\ status[i] # "pending"
Finished(i) == i \in DOMAIN status /\ status[i] = "done"

\* request i stands right before request j in one dependent chain
NextInChain(i, j) ==
    \E c \in 1..Len(dependent_chains) :
        \E p \in 1..(Len(dependent_chains[c]) - 1) :
            dependent_chains[c][p] = i /\ dependent_chains[c][p + 1] = j

\* C4: no request of a dependent chain starts before every request of every
\* independent group has finished, and within a chain a request starts only
\* after the one before it has finished, in the order of the batch.
C4_ChainsAfterGroups ==
    /\ \A c \in ChainCalls : Started(c) => \A i \in PoolCalls : Finished(i)
    /\ \A i, j \in ChainCalls : NextInChain(i, j) => (i < j /\ (Started(j) => Finished(i)))

\* the second request of a chain is executing, after a request of an
\* independent group was given up as timed out and finished later
C4_Witness ==
    /\ mainPc = "chains"
    /\ chainPos[2] = 2
    /\ status[ChainCall] = "running"
    /\ timedOut # {}

\* the number of results all_results holds for request i
ResultsFor(i) == Cardinality({k \in 1..Len(all_results) : all_results[k].call = i})

\* C5: the list execute_tools_parallel returns holds exactly one result for
\* each request of the batch.
C5_OneResultPerRequest ==
    mainPc = "returned" =>
        /\ Len(all_results) = Len(tool_calls)
        /\ \A i \in 1..Len(tool_calls) : ResultsFor(i) = 1

\* a returned batch of three: a request that succeeded, one that timed out, and
\* one that was blocked, unknown or raised
C5_Witness ==
    /\ mainPc = "returned"
    /\ Len(tool_calls) = 3
    /\ \E k \in 1..Len(all_results) : all_results[k].kind = "timeout"
    /\ \E k \in 1..Len(all_results) : all_results[k].kind = "ok"
    /\ \E k \in 1..Len(all_results) :
          all_results[k].kind \in {"blocked", "not_found", "raised"}

\* the result all_results holds for request i
ResultOf(i) == all_results[CHOOSE k \in 1..Len(all_results) : all_results[k].call = i]

\* C7: a request of an independent group that ran past the timeout, or whose
\* tool function raised, has a result with success = False; no exception
\* leaves execute_tools_parallel; every other request has the result its
\* _execute_single_tool returned.
C7_TimeoutBecomesFailure ==
    /\ mainPc # "raised"
    /\ mainPc = "returned" =>
          \A i \in PoolCalls :
              /\ ResultsFor(i) = 1
              /\ i \in timedOut => ResultOf(i) = ToolResult(i, "timeout", ExceptionText)
              /\ workerResult[i] = "raised" => ~ResultOf(i).success
              /\ i \notin timedOut => ResultOf(i) = ToolResult(i, workerResult[i], workerError[i])

\* a returned batch where one request of an independent group timed out (its
\* tool function returned normally later) beside one that succeeded in time
\* and one whose tool function raised
C7_Witness ==
    /\ mainPc = "returned"
    /\ \E i, j, k \in PoolCalls :
          /\ i \in timedOut /\ workerResult[i] = "ok" /\ ~ResultOf(i).success
          /\ j \notin timedOut /\ ResultOf(j).success
          /\ k \notin timedOut /\ workerResult[k] = "raised"

-----------------------------------------------------------------------------
(* Claims about the SmartToolSystem, checked under SpecSmart *)

\* the objects a result list holds
Held(ids) == {ids[k] : k \in 1..Len(ids)}

\* C6: when a parallel-safe call of the batch outlasts the timeout, the list
\* returned holds a failed result for that call and the successful results of
\* the calls that finished in time; the timeout does not leave as an exception
\* and discards nothing.
C6_TimeoutKeepsOtherResults ==
    (sPc = "p_done" /\ "original" \in timeouts) =>
        /\ outcome.response # "error"
        /\ \A i \in sYielded :
              objs[sWorker[i]].success => sWorker[i] \in Held(outcome.results)
        /\ \A i \in ParallelIdx \ sYielded :
              \E id \in Held(outcome.results) :
                  objs[id].request = sRequests[i] /\ ~objs[id].success

\* the calls of the tool function that returned, for one request
RealExecutions(call) == {k \in 1..Len(execLog) : execLog[k].call = call /\ execLog[k].ok}

\* C8: for requests with the same read-type tool and the same arguments, in
\* successive batches or in the same batch, the tool function is really
\* executed once; every further request is answered from the cache.
C8_ExecutedOnce ==
    \A call \in SmartCalls :
        call.action \in CachedTools => Cardinality(RealExecutions(call)) <= 1

\* the first execution left exactly one failed result, the model answered
\* with exactly one corrected call, and that call succeeded
OneFailureOneCorrection ==
    /\ sPc = "p_done"
    /\ sRound = "correction"
    /\ "correction" \notin timeouts
    /\ Cardinality({k \in 1..Len(origSnapshot) : ~origSnapshot[k].success}) = 1
    /\ Len(corrected_requests) = 1
    /\ Len(sResults) = 1
    /\ objs[sResults[1]].success

\* C9: with exactly one failed result and exactly one corrected call that
\* succeeds, the merged list has the size of the original batch, holds every
\* originally successful result unchanged, holds the corrected result, and
\* does not hold the failed one.
C9_MergeReplacesFailure ==
    OneFailureOneCorrection =>
        /\ Len(outcome.results) = Len(ctxResults)
        /\ sResults[1] \in Held(outcome.results)
        /\ \A k \in 1..Len(ctxResults) :
              IF origSnapshot[k].success
              THEN /\ ctxResults[k] \in Held(outcome.results)
                   /\ objs[ctxResults[k]] = origSnapshot[k]
              ELSE ctxResults[k] \notin Held(outcome.results)

\* C10: the correction round never calls the tool function of a request that
\* succeeded in the first execution, whatever array the model returned.
C10_NoRerunOfSucceeded ==
    \A k \in 1..Len(execLog) :
        execLog[k].round = "correction" =>
            ~\E j \in 1..Len(origSnapshot) :
                /\ origSnapshot[j].success
                /\ origSnapshot[j].request = execLog[k].call

\* C11: when the results of a correction round still hold a failure and
\* retry_count is below max_retries, another correction round is attempted:
\* process_user_request does not go on to its summary in such a state.
C11_AnotherRound ==
    (/\ sPc \in {"p_summary", "p_done"}
     /\ sRound = "correction"
     /\ "correction" \notin timeouts
     /\ Failed(sResults) # {})
        => retry_count >= max_retries

\* the corrector was asked and executed nothing: the model's answer held no
\* array or an empty one, or the call or the parsing failed
CorrectorGaveNothing ==
    /\ sPc \in {"p_summary", "p_done"}
    /\ sRound = "original"
    /\ retry_count > 0

\* C12: when the corrector gets no array or an empty one, or the model call
\* or the parsing fails, or the retry cap is reached, no tool is executed by
\* the corrector and process_user_request goes on with the original result
\* list, failed results included, every result as it was.
C12_NoCorrectionKeepsResults ==
    CorrectorGaveNothing =>
        /\ results = ctxResults
        /\ \A k \in 1..Len(ctxResults) : objs[ctxResults[k]] = origSnapshot[k]
        /\ \A k \in 1..Len(execLog) : execLog[k].round = "original"
        /\ sPc = "p_done" => outcome.results = ctxResults

\* the request ended after a corrector that gave nothing, and its result list
\* holds a failed and a successful result of the first execution
C12_Witness ==
    /\ CorrectorGaveNothing
    /\ sPc = "p_done"
    /\ Failed(outcome.results) # {}
    /\ Successes(outcome.results) # <<>>

\* C13: every input routed to the force-keyword path leads to exactly one
\* execution of the one tool call mapped from the keyword, with no model
\* call, and ends with an acknowledgement and a list of exactly that result.
C13_ForceRunsOneCall ==
    (sPc = "p_done" /\ has_force_keywords(user_input.text)) =>
        /\ llmCalls = <<>>
        /\ Len(execLog) = 1
        /\ outcome.response \in {"force_executed", "force_failed"}
        /\ Len(outcome.results) = 1
        /\ objs[outcome.results[1]].request = execLog[1].call

\* C14: whenever _needs_tools judges that no tools are needed, no tool is
\* executed, no model call follows the first one, and process_user_request
\* returns initial_response as it is with an empty result list.
C14_NoToolsReturnsInitial ==
    need_check = "no" =>
        /\ sPc = "p_done"
        /\ outcome = [response |-> "initial", results |-> <<>>]
        /\ llmCalls = <<"main">>
        /\ execLog = <<>>
        /\ objs = <<>>

\* a knowledge question answered with a text that suggests a tool: the check
\* said no and the request has ended
C14_Witness ==
    /\ need_check = "no"
    /\ sPc = "p_done"
    /\ user_input.kind = "knowledge"
    /\ initial_response.suggests

\* C15: no exception leaves process_user_request; on every path it ends by
\* returning a response and a list of ToolResult objects, which may be empty.
C15_AlwaysReturnsPair ==
    /\ sPc # "escaped"
    /\ sPc = "p_done" =>
          /\ outcome.response # "none"
          /\ \A k \in 1..Len(outcome.results) : outcome.results[k] \in 1..Len(objs)

\* the request ended with the error text, after as_completed had raised
C15_Witness ==
    /\ sPc = "p_done"
    /\ outcome.response = "error"
    /\ "original" \in timeouts

-----------------------------------------------------------------------------
(* Claims about parse_tool_calls, checked under SpecParse *)

RECURSIVE InTextOrder(_)
\* the calls a text encodes, decoded as the parser decodes them, in the order
\* of their position in the text
InTextOrder(text) ==
    IF text = <<>> THEN <<>>
    ELSE LET seg == Head(text)
         IN  (IF seg.format \in {"marker", "block"}
              THEN <<ToolCall(seg.name, JsonObject(seg.pairs))>>
              ELSE IF seg.format = "invoke"
              THEN <<ToolCall(seg.name, parse_function_parameters(seg.pairs))>>
              ELSE ArrayCalls(<<seg>>))
             \o InTextOrder(Tail(text))

PairwiseDifferent(calls) ==
    \A i, j \in 1..Len(calls) : i # j => calls[i] # calls[j]

\* a text of marker-format calls and JSON-array calls, no two the same call
MarkersAndArrays ==
    /\ \A i \in 1..Len(response_text) : response_text[i].format \in {"marker", "json"}
    /\ PairwiseDifferent(InTextOrder(response_text))

\* C16: parse_tool_calls on a text of N marker-format calls and M JSON-array
\* calls, pairwise different, returns N+M requests in the order of their first
\* appearance in the text.  The code collects the matches format by format,
\* so a marker call written after an array comes out before it.
C16_CountAndTextOrder ==
    (parsePc = "done" /\ MarkersAndArrays)
        => /\ Len(unique_calls) = Len(InTextOrder(response_text))
           /\ unique_calls = InTextOrder(response_text)

\* the positions in a text of the encodings of a call
EncodedAt(call) ==
    {i \in 1..Len(response_text) :
        \E k \in 1..Len(InTextOrder(<<response_text[i]>>)) :
            InTextOrder(<<response_text[i]>>)[k] = call}

\* a call the text encodes in two different formats
InTwoFormats(call) ==
    \E i, j \in EncodedAt(call) : response_text[i].format # response_text[j].format

\* the position a call must have in the result: one more than the number of
\* different calls parsed before its first parsed occurrence
FirstParsedPosition(call) ==
    LET collected == AllMatches(response_text)
        first == CHOOSE i \in 1..Len(collected) :
                     /\ collected[i] = call
                     /\ \A j \in 1..(i - 1) : collected[j] # call
    IN  Cardinality({collected[j] : j \in 1..(first - 1)}) + 1

\* C17: a call the text encodes in two different formats (same name, same
\* key/value pairs, the keys in any order) is in the returned list exactly
\* once, at the position of its first parsed occurrence.
C17_OneRequestPerCall ==
    parsePc = "done" =>
        \A call \in {InTextOrder(response_text)[i] :
                        i \in 1..Len(InTextOrder(response_text))} :
            InTwoFormats(call) =>
                /\ Cardinality({k \in 1..Len(unique_calls) : unique_calls[k] = call}) = 1
                /\ unique_calls[FirstParsedPosition(call)] = call

\* C17 witness: a call with two arguments written as a marker call and, with
\* the keys in the other order, as an invoke call, next to nothing else
C17_Witness ==
    /\ parsePc = "done"
    /\ Len(response_text) = 2
    /\ response_text[1].format = "invoke"
    /\ response_text[2].format = "marker"
    /\ Len(response_text[1].pairs) = 2
    /\ response_text[1].pairs[1][1] # response_text[2].pairs[1][1]
    /\ InTextOrder(<<response_text[1]>>) = InTextOrder(<<response_text[2]>>)
    /\ Len(unique_calls) = 1

-----------------------------------------------------------------------------
(* Claims about the engines, checked under SpecEngines *)

\* an error text that is there and holds the name
NamesTool(error, tool_name) ==
    /\ error # NoneVal
    /\ error # <<>>
    /\ \E k \in 1..Len(error) : error[k] = tool_name

\* _execute_single_tool of ClaudeToolSystem returns for request i in this step
ClaudeReturnsAtOnce(i) == status[i] = "pending" /\ status'[i] # "pending"

\* _execute_single_tool of SmartToolSystem returns for request i in this step
SmartReturnsAtOnce(i) == sStatus[i] = "pending" /\ sStatus'[i] # "pending"

\* C18: for a name the registry does not hold, _execute_single_tool of both
\* systems returns a failed result whose error names the tool; it does not
\* get as far as a tool function, and the result cache and the consecutive
\* counts of the validator stay as they are.
C18_UnknownToolFails ==
    [][/\ \A i \in (DOMAIN status) \cap (DOMAIN status') :
            (tool_calls[i].name \notin TOOL_REGISTRY /\ ClaudeReturnsAtOnce(i))
                => /\ status'[i] = "done"
                   /\ ~ToolResult(i, workerResult'[i], workerError'[i]).success
                   /\ NamesTool(workerError'[i], tool_calls[i].name)
                   /\ consecutive_tool_counts' = consecutive_tool_counts
                   /\ found_files_cache' = found_files_cache
       /\ \A i \in (DOMAIN sStatus) \cap (DOMAIN sStatus') :
            (sRequests[i].action \notin TOOL_REGISTRY /\ SmartReturnsAtOnce(i))
                => /\ sStatus'[i] = "done"
                   /\ ~objs'[sWorker'[i]].success
                   /\ NamesTool(objs'[sWorker'[i]].error, sRequests[i].action)
                   /\ cache' = cache
                   /\ execLog' = execLog
                   /\ consecutive_tool_counts' = consecutive_tool_counts
      ]_vars

\* C18 witness: execute_tools_parallel has returned the results of a batch
\* with an unknown name that passed the validator
C18_Witness ==
    /\ mainPc = "returned"
    /\ \E k \in 1..Len(all_results) :
          /\ tool_calls[all_results[k].call].name \notin TOOL_REGISTRY
          /\ all_results[k].kind = "not_found"
          /\ ~all_results[k].success
          /\ NamesTool(all_results[k].error, tool_calls[all_results[k].call].name)

-----------------------------------------------------------------------------
(* Claims about the engines that ask the validator, checked under           *)
(* SpecValidated                                                            *)

\* validate_tool_call refuses request i of execute_tools_parallel in this step
ClaudeRefuses(i) ==
    /\ ClaudeReturnsAtOnce(i)
    /\ ~ValidateResult(tool_calls[i].name, tool_calls[i].args).allowed

\* validate_tool_call refuses the pair execute_tool_calls is at in this step
SessionRefuses ==
    /\ sessPc = "validate"
    /\ sessPc' # "validate" \/ matchIdx' # matchIdx
    /\ ~Match.malformed
    /\ ~ValidateResult(Match.name, Match.args).allowed

\* C19: a call validate_tool_call refuses is not executed.  In
\* _execute_single_tool of ClaudeToolSystem and in execute_tool_calls the tool
\* function is not called and record_tool_call is not called for it, and the
\* output gets one entry for the call, with the reason of the refusal or with
\* the suggested alternative.
C19_BlockedNeverExecuted ==
    [][/\ \A i \in (DOMAIN status) \cap (DOMAIN status') :
            ClaudeRefuses(i)
                => /\ status'[i] = "done"
                   /\ workerResult'[i] = "blocked"
                   /\ ~ToolResult(i, workerResult'[i], workerError'[i]).success
                   /\ workerError'[i] =
                         BlockReason(tool_calls[i].name,
                                     ValidateResult(tool_calls[i].name,
                                                    tool_calls[i].args).reason)
                   /\ validation_stats'.total_calls = validation_stats.total_calls
                   /\ consecutive_tool_counts' = consecutive_tool_counts
       /\ SessionRefuses
            => /\ toolLog' = toolLog
               /\ validation_stats'.total_calls = validation_stats.total_calls
               /\ consecutive_tool_counts' = consecutive_tool_counts
               /\ Len(session_results') = Len(session_results) + 1
               /\ LET entry == session_results'[Len(session_results')] IN
                  /\ entry.tool = Match.name
                  /\ \/ /\ entry.kind = "skipped"
                        /\ entry.message =
                              BlockReason(Match.name,
                                          ValidateResult(Match.name, Match.args).reason)
                     \/ /\ entry.kind = "suggestion"
                        /\ suggest_alternative(Match.name, Match.args).given
               /\ sessPc' # "call"
      ]_vars

\* C19 witness: execute_tool_calls has returned; it was given a search twice
\* and a read without a path, called a tool function for the first search
\* only, and its output holds a suggestion and a reason
C19_Witness ==
    /\ sessPc = "returned"
    /\ Len(matches) = 3
    /\ toolLog = <<1>>
    /\ Len(session_results) = 3
    /\ session_results[2].kind = "suggestion"
    /\ session_results[3].kind = "skipped"
    /\ validation_stats.total_calls = 1
    /\ validation_stats.blocked_calls = 2

-----------------------------------------------------------------------------
(* The redundant search rule, checked under SpecValidator *)

\* the pattern of a search as the validator reads it
SearchPattern(args) == Get(args, "pattern", Get(args, "arg1", EmptyStr))

\* a search that gets past the first two rules
PassesFirstRules(args) ==
    /\ ~has_empty_args("find_files", args)
    /\ ~exceeds_consecutive_limit("find_files")

\* C20: a find_files call that passes the empty-argument rule and the
\* consecutive-limit rule is refused when its pattern has an entry in
\* found_files_cache, which reset_context leaves alone, or when its
\* pattern:search_type is in recent_searches, the searches of the turn.
C20_RedundantSearchBlocked ==
    [][lastOp' = [op |-> "validate", tool |-> "find_files"] =>
          \A args \in ValArgs :
             (/\ PassesFirstRules(args)
              /\ \/ SearchPattern(args) \in DOMAIN found_files_cache
                 \/ InSeq(SearchSignature(args), recent_searches)
              /\ validate_tool_call("find_files", args))
                 => /\ ~ret'.allowed
                    /\ ret'.reason = "redundant_search"
                    /\ recent_searches' = recent_searches
      ]_vars

\* C20 witness: a search was recorded with its result, reset_context came,
\* and the same pattern was then refused as redundant
C20_Witness ==
    /\ lastOp = [op |-> "validate", tool |-> "find_files"]
    /\ ~ret.allowed
    /\ ret.reason = "redundant_search"
    /\ found_files_cache # <<>>
    /\ recent_searches = <<>>
    /\ consecutive_tool_counts = <<>>
    /\ validation_stats.total_calls > 0

-----------------------------------------------------------------------------
(* Telemetry of the SmartToolSystem, checked under SpecSmart *)

\* the result _execute_single_tool builds and the cache it leaves when the
\* tool function was called for `request` and no tracker call raises
UntrackedResult(request, ok) ==
    NewResult(request, ok, IF ok THEN NoneVal ELSE ExceptionText)
UntrackedCache(request, ok, id) ==
    IF ok /\ request.action \in CachedTools
    THEN [k \in DOMAIN cache \cup {cache_key(request)} |->
              IF k = cache_key(request) THEN id ELSE cache[k]]
    ELSE cache

-----------------------------------------------------------------------------
(* Validation and the pool of execute_tools_parallel, checked under SpecClaude *)

\* the tool function of request i has been entered and has not returned
ToolFunctionRuns(i) == status[i] = "running"

\* validate_tool_call has not yet been called for request i
NotYetValidated(i) == status[i] = "pending"

\* C22: validate_tool_call and record_tool_call run in one thread at a time,
\* and every request of a batch has been validated before the tool function
\* of any request of that batch starts.
C22_ValidatedBeforeAnyStarts ==
    \A i \in DOMAIN status, j \in DOMAIN status :
        ToolFunctionRuns(i) => ~NotYetValidated(j)

-----------------------------------------------------------------------------
(* The validator and the SmartToolSystem, checked under SpecSmart *)

\* the validator has been asked about some call since it was constructed
ValidatorConsulted == lastOp.op # "init"

StoredResults == {cache[k] : k \in DOMAIN cache}

\* C24: serving a request from the cache does not modify the ToolResult that
\* was returned for the original execution: that object keeps cached = false
\* wherever it is held, and only the result returned for the hit has
\* cached = true.
C24_CacheHitLeavesOriginal ==
    \A id \in StoredResults : ~objs[id].cached

-----------------------------------------------------------------------------
(* The session state of the validator, checked under SpecValidator *)

\* the session state of ToolCallValidator: the consecutive counts, the window
\* of recent searches, the cache of search results and the known files
SessionState ==
    <<consecutive_tool_counts, recent_searches, found_files_cache, known_files>>

\* C25: validate_tool_call, whether it allows or blocks, leaves every part of
\* the session state as it was.
C25_ValidateChangesNothing ==
    [][lastOp'.op = "validate" => SessionState' = SessionState]_vars

-----------------------------------------------------------------------------
(* Recording in _execute_single_tool, checked under SpecClaude *)

\* the tool function of request i returns or raises in this step
ToolFunctionEnds(i) == status[i] = "running" /\ status'[i] = "done"

-----------------------------------------------------------------------------
(* The consecutive counts, checked under SpecValidator *)

\* C27: under any sequence of validate_tool_call, record_tool_call and
\* reset_context the map of consecutive counts has at most one entry with a
\* nonzero count, and that entry belongs to the tool recorded most recently.
C27_OneCountedTool ==
    /\ Cardinality({t \in DOMAIN consecutive_tool_counts :
                        consecutive_tool_counts[t] # 0}) <= 1
    /\ \A t \in DOMAIN consecutive_tool_counts :
          consecutive_tool_counts[t] # 0 =>
              /\ run.len > 0
              /\ t = run.tool
              /\ consecutive_tool_counts[t] = run.len

\* C27 witness: three calls have been recorded, and the map holds the tool
\* recorded last alone, with a count of one
C27_Witness ==
    /\ lastOp.op = "record"
    /\ validation_stats.total_calls = 3
    /\ run.len = 1
    /\ DOMAIN consecutive_tool_counts = {lastOp.tool}
    /\ consecutive_tool_counts[lastOp.tool] = 1

-----------------------------------------------------------------------------
(* reset_context, checked under SpecValidator *)

\* the searches whose pattern has an entry in found_files_cache
AnsweredSearches ==
    {args \in ValArgs : /\ ~has_empty_args("find_files", args)
                        /\ SearchPattern(args) \in DOMAIN found_files_cache}

\* C28: reset_context empties the map of consecutive counts and the window of
\* recent searches and leaves known_files and found_files_cache as they were;
\* so a pattern answered in an earlier turn is still refused as redundant
\* right after the reset.
C28_ResetKeepsSearchResults ==
    [][lastOp'.op = "reset" =>
          /\ consecutive_tool_counts' = <<>>
          /\ recent_searches' = <<>>
          /\ found_files_cache' = found_files_cache
          /\ known_files' = known_files
          /\ \A args \in AnsweredSearches :
                ValidateResult("find_files", args)' =
                    [allowed |-> FALSE, reason |-> "redundant_search"]
      ]_vars

\* C28 witness: reset_context has just run on a validator that holds the
\* result of an earlier search and the files it named
C28_Witness ==
    /\ lastOp.op = "reset"
    /\ AnsweredSearches # {}
    /\ known_files # {}
    /\ consecutive_tool_counts = <<>>
    /\ recent_searches = <<>>

-----------------------------------------------------------------------------
(* The window of recent searches, checked under SpecSearches *)

\* no signature is in the window twice
NoRepeats(window) ==
    \A i, j \in 1..Len(window) : window[i] = window[j] => i = j

\* C29: the window of recent searches holds at most 5 signatures and no
\* signature twice; a signature that is added goes to the end, and when it is
\* the sixth the oldest one is removed.
C29_WindowOfFive ==
    [][/\ Len(recent_searches') <= 5
       /\ NoRepeats(recent_searches')
       /\ \A a \in WindowArgs :
             (/\ lastOp'.op = "validate"
              /\ ~InSeq(SearchSignature(a), recent_searches)
              /\ validate_tool_call("find_files", a))
                => recent_searches' =
                      IF Len(recent_searches) = 5
                      THEN Append(Tail(recent_searches), SearchSignature(a))
                      ELSE Append(recent_searches, SearchSignature(a))
      ]_vars

\* C29 witness: six different searches were validated since the last reset;
\* the window holds the five latest and the first one is gone
C29_Witness ==
    /\ lastOp.op = "validate"
    /\ ret.allowed
    /\ Len(recent_searches) = 5
    /\ evicted # NoneVal
    /\ ~InSeq(evicted, recent_searches)

-----------------------------------------------------------------------------
(* Candidates that cannot be parsed, checked under SpecParse *)

\* the calls of a sequence, as a set
CallsOf(calls) == {calls[i] : i \in 1..Len(calls)}

\* C30: parse_tool_calls never raises; a candidate that cannot be parsed,
\* whatever JSON value its arguments hold, is skipped, and every other
\* well-formed call of the text is returned.
C30_MalformedSkippedOthersKept ==
    /\ parsePc # "raised"
    /\ parsePc = "done" =>
          \A i \in 1..Len(response_text) :
              (response_text[i].format \in {"marker", "block", "invoke"}
                 /\ ~ParseRaises(<<response_text[i]>>))
                  => CallsOf(InTextOrder(<<response_text[i]>>)) \subseteq CallsOf(unique_calls)

-----------------------------------------------------------------------------
(* The two ways to a batch in process_user_request, checked under SpecSmart *)

\* the tool calls _parse_tools_from_response finds in the initial response
InitialTools == parse_tools_from_response(initial_response)

\* C31: the tool-extraction model call is made only when no tool call was
\* found in the initial response; when tool calls were found there, exactly
\* they form the batch of the first execution and no extraction call is made.
C31_ExtractionOnlyWithoutInitialTools ==
    /\ InSeq("tool_extraction", llmCalls) => InitialTools = <<>>
    /\ (InitialTools # <<>> /\ sPc \notin {"p_start", "p_initial", "p_parse"})
          => /\ ~InSeq("tool_extraction", llmCalls)
             /\ need_check = "unasked"
             /\ sRound = "original" => sRequests = InitialTools

\* C31 witness: the initial response announced two tool calls, they were
\* executed as the batch, and the only model call so far is the main one
C31_Witness ==
    /\ Len(InitialTools) = 2
    /\ sRound = "original"
    /\ sRequests = InitialTools
    /\ Len(execLog) = 2
    /\ llmCalls = <<"main">>

-----------------------------------------------------------------------------
(* The threads that touch the cache, checked under SpecSmart *)

\* this step is taken by a worker thread of the pool: _execute_single_tool of
\* a parallel-safe request returns while the caller is inside the with block
WorkerReturns ==
    /\ sPc \in {"x_pool", "x_exit", "x_raise"}
    /\ \E i \in ParallelIdx \cap (DOMAIN sStatus) \cap (DOMAIN sStatus') :
          sStatus[i] = "running" /\ sStatus'[i] = "done"

\* C32: the cache is written only by the thread that called
\* _execute_tools_with_progress, after a worker has returned; no worker
\* thread writes it.
C32_CacheWrittenByCaller ==
    [][cache' # cache => ~WorkerReturns]_vars

-----------------------------------------------------------------------------
(* One file, one call at a time, checked under SpecClaude *)

\* two different file requests of the batch with the same resolved path
SameFile(i, j) ==
    /\ i # j
    /\ IsFileRequest(i) /\ IsFileRequest(j)
    /\ PathOf(i) = PathOf(j)

\* C33: at no moment are the tool functions of two read_file, write_file or
\* edit_file requests of one batch with the same resolved path executing at
\* the same time, also after a request of an independent group was reported
\* as timed out.
C33_OneCallPerFile ==
    \A i \in DOMAIN status, j \in DOMAIN status :
        SameFile(i, j) => ~(ToolFunctionRuns(i) /\ ToolFunctionRuns(j))

\* C33 witness: a request of an independent group was reported as timed out,
\* the first request of a chain is executing, and the next request on the
\* same file has not started
C33_Witness ==
    /\ mainPc = "chains"
    /\ timedOut # {}
    /\ chainPos[2] = 1
    /\ ToolFunctionRuns(ChainCall)
    /\ \E j \in DOMAIN status : SameFile(ChainCall, j) /\ status[j] = "pending"

-----------------------------------------------------------------------------
(* Reads after writes in the SmartToolSystem, checked under SpecRepeat *)

\* the read_file of this call of process_user_request was answered with an
\* object older than the result of a write_file or edit_file that succeeded
\* on the same path: the answer comes from a cache entry stored before the
\* write
StaleRead ==
    /\ sRound = "force"
    /\ sStatus = <<"done">>
    /\ sRequests[1].action = "read_file"
    /\ \E w \in (sWorker[1] + 1)..Len(objs) :
          /\ objs[w].success
          /\ objs[w].request.action \in {"write_file", "edit_file"}
          /\ Get(objs[w].request.params, "path", NoneVal)
                = Get(sRequests[1].params, "path", NoneVal)

-----------------------------------------------------------------------------
(* The order of requests on one file, checked under SpecSmart *)

\* requests i and j of the running batch are a write_file or edit_file and a
\* read_file on the same path
WriteAndRead(i, j) ==
    /\ {sRequests[i].action, sRequests[j].action} \cap {"write_file", "edit_file"} # {}
    /\ "read_file" \in {sRequests[i].action, sRequests[j].action}
    /\ Get(sRequests[i].params, "path", NoneVal) = Get(sRequests[j].params, "path", NoneVal)

\* C35: when a batch holds a write_file or edit_file and a read_file on the
\* same path, their tool functions execute in the order of the batch: the
\* later one is not executing before the earlier one has finished.
C35_SameFileInBatchOrder ==
    sPc \in {"x_pool", "x_exit", "x_raise", "x_serial"} =>
        \A i, j \in DOMAIN sStatus :
            (i < j /\ WriteAndRead(i, j) /\ sStatus[j] = "running")
                => sStatus[i] = "done"

-----------------------------------------------------------------------------
(* The consecutive limit and the pool, checked under SpecClaude *)

\* C36: for every batch of execute_tools_parallel and every interleaving of
\* its threads, the calls of one tool that were allowed, executed and
\* recorded in an unbroken run are never more than MAX_CONSECUTIVE_SAME_TOOL.
C36_LimitHoldsInParallel ==
    run.len <= MAX_CONSECUTIVE_SAME_TOOL

-----------------------------------------------------------------------------
(* Termination of execute_tools_parallel, checked under SpecClaudeLive *)

-----------------------------------------------------------------------------
(* The statistics of ToolCallMonitor, checked under SpecValidator *)

\* get_validation_report: the counts it reports; success_rate is the
\* fraction rate_num / rate_den, ((total - blocked) / max(total, 1)) * 100
get_validation_report ==
    LET total == validation_stats.total_calls
        blocked == validation_stats.blocked_calls
    IN  [total_tool_calls |-> total,
         blocked_calls |-> blocked,
         rate_num |-> (total - blocked) * 100,
         rate_den |-> IF total > 1 THEN total ELSE 1]

====
